---- MODULE Spec2Model ----
(***************************************************************************)
(* sql-diff: canonicalization of SQL query trees (alias resolution,        *)
(* canonical ordering of select lists, joins, predicates, group-by) and    *)
(* the comparison of two queries by their canonical text.                  *)
(*                                                                         *)
(* JavaScript strings are sequences of one-character strings, so that      *)
(* toLowerCase, the quote-stripping regex, string concatenation, the       *)
(* relational operator > (UTF-16 code unit order) and localeCompare        *)
(* (collation order) are computed and not assumed.  A null or undefined    *)
(* string is the empty sequence: every test the code makes on a string is  *)
(* a truthiness test, under which null and the empty string agree.           *)
(***************************************************************************)
EXTENDS Integers, Sequences, FiniteSets, TLC

VARIABLES
    sql1,           \* parser outcome of the first query text
    sql2,           \* parser outcome of the second query text
    options,        \* the options object: the toggles it gives
    pc,             \* position in the running function
    normalizedAst,  \* the tree normalizeQuery is working on
    result1,        \* normalizeQuery(sql1, options)
    result2,        \* normalizeQuery(sql2, options)
    comparison      \* what compareQueries returns

\* the state of the App component
VARIABLES
    query1,         \* the text of the first editor
    query2,         \* the text of the second editor
    normalized1,    \* the canonical text shown for the first query
    normalized2,    \* the canonical text shown for the second query
    error1,         \* the error shown under the first editor, or null
    error2,         \* the error shown under the second editor, or null
    isEquivalent,   \* the verdict shown, or null
    database,       \* the dialect selected
    showOutput      \* the output section is open

runVars == <<sql1, sql2, options, pc, normalizedAst, result1, result2, comparison>>

appVars == <<query1, query2, normalized1, normalized2, error1, error2, isEquivalent,
             database, showOutput>>

vars == <<runVars, appVars>>

(***************************************************************************)
(* Characters: String.prototype charCodeAt, toLowerCase, toUpperCase and   *)
(* the primary weight of the root collation used by localeCompare          *)
(* (punctuation < symbols < digits < letters, letters case-insensitive).   *)
(***************************************************************************)
CodeUnit ==
    " " :> 32 @@ "!" :> 33 @@ "\"" :> 34 @@ "#" :> 35 @@ "$" :> 36 @@ "%" :> 37 @@ "&" :> 38 @@
    "'" :> 39 @@ "(" :> 40 @@ ")" :> 41 @@ "*" :> 42 @@ "+" :> 43 @@ "," :> 44 @@ "-" :> 45 @@
    "." :> 46 @@ "/" :> 47 @@ "0" :> 48 @@ "1" :> 49 @@ "2" :> 50 @@ "3" :> 51 @@ "4" :> 52 @@
    "5" :> 53 @@ "6" :> 54 @@ "7" :> 55 @@ "8" :> 56 @@ "9" :> 57 @@ ":" :> 58 @@ ";" :> 59 @@
    "<" :> 60 @@ "=" :> 61 @@ ">" :> 62 @@ "?" :> 63 @@ "@" :> 64 @@ "A" :> 65 @@ "B" :> 66 @@
    "C" :> 67 @@ "D" :> 68 @@ "E" :> 69 @@ "F" :> 70 @@ "G" :> 71 @@ "H" :> 72 @@ "I" :> 73 @@
    "J" :> 74 @@ "K" :> 75 @@ "L" :> 76 @@ "M" :> 77 @@ "N" :> 78 @@ "O" :> 79 @@ "P" :> 80 @@
    "Q" :> 81 @@ "R" :> 82 @@ "S" :> 83 @@ "T" :> 84 @@ "U" :> 85 @@ "V" :> 86 @@ "W" :> 87 @@
    "X" :> 88 @@ "Y" :> 89 @@ "Z" :> 90 @@ "[" :> 91 @@ "\\" :> 92 @@ "]" :> 93 @@ "^" :> 94 @@
    "_" :> 95 @@ "a" :> 97 @@ "b" :> 98 @@ "c" :> 99 @@ "d" :> 100 @@ "e" :> 101 @@
    "f" :> 102 @@ "g" :> 103 @@ "h" :> 104 @@ "i" :> 105 @@ "j" :> 106 @@ "k" :> 107 @@
    "l" :> 108 @@ "m" :> 109 @@ "n" :> 110 @@ "o" :> 111 @@ "p" :> 112 @@ "q" :> 113 @@
    "r" :> 114 @@ "s" :> 115 @@ "t" :> 116 @@ "u" :> 117 @@ "v" :> 118 @@ "w" :> 119 @@
    "x" :> 120 @@ "y" :> 121 @@ "z" :> 122 @@ "{" :> 123 @@ "|" :> 124 @@ "}" :> 125 @@ "~" :> 126
CollationPrimary ==
    " " :> 1 @@ "!" :> 7 @@ "\"" :> 11 @@ "#" :> 23 @@ "$" :> 33 @@ "%" :> 24 @@ "&" :> 22 @@
    "'" :> 10 @@ "(" :> 12 @@ ")" :> 13 @@ "*" :> 19 @@ "+" :> 27 @@ "," :> 4 @@ "-" :> 3 @@
    "." :> 9 @@ "/" :> 20 @@ "0" :> 34 @@ "1" :> 35 @@ "2" :> 36 @@ "3" :> 37 @@ "4" :> 38 @@
    "5" :> 39 @@ "6" :> 40 @@ "7" :> 41 @@ "8" :> 42 @@ "9" :> 43 @@ ":" :> 6 @@ ";" :> 5 @@
    "<" :> 28 @@ "=" :> 29 @@ ">" :> 30 @@ "?" :> 8 @@ "@" :> 18 @@ "A" :> 44 @@ "B" :> 45 @@
    "C" :> 46 @@ "D" :> 47 @@ "E" :> 48 @@ "F" :> 49 @@ "G" :> 50 @@ "H" :> 51 @@ "I" :> 52 @@
    "J" :> 53 @@ "K" :> 54 @@ "L" :> 55 @@ "M" :> 56 @@ "N" :> 57 @@ "O" :> 58 @@ "P" :> 59 @@
    "Q" :> 60 @@ "R" :> 61 @@ "S" :> 62 @@ "T" :> 63 @@ "U" :> 64 @@ "V" :> 65 @@ "W" :> 66 @@
    "X" :> 67 @@ "Y" :> 68 @@ "Z" :> 69 @@ "[" :> 14 @@ "\\" :> 21 @@ "]" :> 15 @@ "^" :> 26 @@
    "_" :> 2 @@ "a" :> 44 @@ "b" :> 45 @@ "c" :> 46 @@ "d" :> 47 @@ "e" :> 48 @@
    "f" :> 49 @@ "g" :> 50 @@ "h" :> 51 @@ "i" :> 52 @@ "j" :> 53 @@ "k" :> 54 @@ "l" :> 55 @@
    "m" :> 56 @@ "n" :> 57 @@ "o" :> 58 @@ "p" :> 59 @@ "q" :> 60 @@ "r" :> 61 @@ "s" :> 62 @@
    "t" :> 63 @@ "u" :> 64 @@ "v" :> 65 @@ "w" :> 66 @@ "x" :> 67 @@ "y" :> 68 @@ "z" :> 69 @@
    "{" :> 16 @@ "|" :> 31 @@ "}" :> 17 @@ "~" :> 32
toLowerCaseChar ==
    " " :> " " @@ "!" :> "!" @@ "\"" :> "\"" @@ "#" :> "#" @@ "$" :> "$" @@ "%" :> "%" @@
    "&" :> "&" @@ "'" :> "'" @@ "(" :> "(" @@ ")" :> ")" @@ "*" :> "*" @@ "+" :> "+" @@
    "," :> "," @@ "-" :> "-" @@ "." :> "." @@ "/" :> "/" @@ "0" :> "0" @@ "1" :> "1" @@
    "2" :> "2" @@ "3" :> "3" @@ "4" :> "4" @@ "5" :> "5" @@ "6" :> "6" @@ "7" :> "7" @@
    "8" :> "8" @@ "9" :> "9" @@ ":" :> ":" @@ ";" :> ";" @@ "<" :> "<" @@ "=" :> "=" @@
    ">" :> ">" @@ "?" :> "?" @@ "@" :> "@" @@ "A" :> "a" @@ "B" :> "b" @@ "C" :> "c" @@
    "D" :> "d" @@ "E" :> "e" @@ "F" :> "f" @@ "G" :> "g" @@ "H" :> "h" @@ "I" :> "i" @@
    "J" :> "j" @@ "K" :> "k" @@ "L" :> "l" @@ "M" :> "m" @@ "N" :> "n" @@ "O" :> "o" @@
    "P" :> "p" @@ "Q" :> "q" @@ "R" :> "r" @@ "S" :> "s" @@ "T" :> "t" @@ "U" :> "u" @@
    "V" :> "v" @@ "W" :> "w" @@ "X" :> "x" @@ "Y" :> "y" @@ "Z" :> "z" @@ "[" :> "[" @@
    "\\" :> "\\" @@ "]" :> "]" @@ "^" :> "^" @@ "_" :> "_" @@ "a" :> "a" @@
    "b" :> "b" @@ "c" :> "c" @@ "d" :> "d" @@ "e" :> "e" @@ "f" :> "f" @@ "g" :> "g" @@
    "h" :> "h" @@ "i" :> "i" @@ "j" :> "j" @@ "k" :> "k" @@ "l" :> "l" @@ "m" :> "m" @@
    "n" :> "n" @@ "o" :> "o" @@ "p" :> "p" @@ "q" :> "q" @@ "r" :> "r" @@ "s" :> "s" @@
    "t" :> "t" @@ "u" :> "u" @@ "v" :> "v" @@ "w" :> "w" @@ "x" :> "x" @@ "y" :> "y" @@
    "z" :> "z" @@ "{" :> "{" @@ "|" :> "|" @@ "}" :> "}" @@ "~" :> "~"
toUpperCaseChar ==
    " " :> " " @@ "!" :> "!" @@ "\"" :> "\"" @@ "#" :> "#" @@ "$" :> "$" @@ "%" :> "%" @@
    "&" :> "&" @@ "'" :> "'" @@ "(" :> "(" @@ ")" :> ")" @@ "*" :> "*" @@ "+" :> "+" @@
    "," :> "," @@ "-" :> "-" @@ "." :> "." @@ "/" :> "/" @@ "0" :> "0" @@ "1" :> "1" @@
    "2" :> "2" @@ "3" :> "3" @@ "4" :> "4" @@ "5" :> "5" @@ "6" :> "6" @@ "7" :> "7" @@
    "8" :> "8" @@ "9" :> "9" @@ ":" :> ":" @@ ";" :> ";" @@ "<" :> "<" @@ "=" :> "=" @@
    ">" :> ">" @@ "?" :> "?" @@ "@" :> "@" @@ "A" :> "A" @@ "B" :> "B" @@ "C" :> "C" @@
    "D" :> "D" @@ "E" :> "E" @@ "F" :> "F" @@ "G" :> "G" @@ "H" :> "H" @@ "I" :> "I" @@
    "J" :> "J" @@ "K" :> "K" @@ "L" :> "L" @@ "M" :> "M" @@ "N" :> "N" @@ "O" :> "O" @@
    "P" :> "P" @@ "Q" :> "Q" @@ "R" :> "R" @@ "S" :> "S" @@ "T" :> "T" @@ "U" :> "U" @@
    "V" :> "V" @@ "W" :> "W" @@ "X" :> "X" @@ "Y" :> "Y" @@ "Z" :> "Z" @@ "[" :> "[" @@
    "\\" :> "\\" @@ "]" :> "]" @@ "^" :> "^" @@ "_" :> "_" @@ "a" :> "A" @@
    "b" :> "B" @@ "c" :> "C" @@ "d" :> "D" @@ "e" :> "E" @@ "f" :> "F" @@ "g" :> "G" @@
    "h" :> "H" @@ "i" :> "I" @@ "j" :> "J" @@ "k" :> "K" @@ "l" :> "L" @@ "m" :> "M" @@
    "n" :> "N" @@ "o" :> "O" @@ "p" :> "P" @@ "q" :> "Q" @@ "r" :> "R" @@ "s" :> "S" @@
    "t" :> "T" @@ "u" :> "U" @@ "v" :> "V" @@ "w" :> "W" @@ "x" :> "X" @@ "y" :> "Y" @@
    "z" :> "Z" @@ "{" :> "{" @@ "|" :> "|" @@ "}" :> "}" @@ "~" :> "~"

toLowerCase(s) == [i \in 1..Len(s) |-> toLowerCaseChar[s[i]]]

toUpperCase(s) == [i \in 1..Len(s) |-> toUpperCaseChar[s[i]]]

\* the least element of a non-empty set of integers
Min(S) == CHOOSE x \in S : \A y \in S : x <= y

\* the first position where s and t differ, 0 when one is a prefix of the other
FirstDifference(s, t, Differ(_, _)) ==
    LET n == IF Len(s) < Len(t) THEN Len(s) ELSE Len(t)
        D == {i \in 1..n : Differ(s[i], t[i])}
    IN  IF D = {} THEN 0 ELSE Min(D)

\* s < t for the JavaScript relational operators: code unit order
CodeUnitLess(s, t) ==
    LET Differ(c, d) == CodeUnit[c] # CodeUnit[d]
        i == FirstDifference(s, t, Differ)
    IN  IF i = 0 THEN Len(s) < Len(t) ELSE CodeUnit[s[i]] < CodeUnit[t[i]]

\* primary level of the collation: -1, 0, 1
PrimaryCompare(s, t) ==
    LET Differ(c, d) == CollationPrimary[c] # CollationPrimary[d]
        i == FirstDifference(s, t, Differ)
    IN  IF i = 0
        THEN IF Len(s) < Len(t) THEN -1 ELSE IF Len(s) > Len(t) THEN 1 ELSE 0
        ELSE IF CollationPrimary[s[i]] < CollationPrimary[t[i]] THEN -1 ELSE 1

\* tertiary level (case) for strings equal at the primary level:
\* lower case sorts before upper case
TertiaryCompare(s, t) ==
    LET Differ(c, d) == c # d
        i == FirstDifference(s, t, Differ)
    IN  IF i = 0 THEN 0 ELSE IF toLowerCaseChar[s[i]] = s[i] THEN -1 ELSE 1

\* String.prototype.localeCompare
localeCompare(s, t) ==
    LET p == PrimaryCompare(s, t)
    IN  IF p # 0 THEN p ELSE TertiaryCompare(s, t)

\* String(n) for a non-negative integer
RECURSIVE String(_)
String(n) ==
    LET Digit(d) == <<"0","1","2","3","4","5","6","7","8","9">>[d + 1]
    IN  IF n < 10 THEN <<Digit(n)>> ELSE String(n \div 10) \o <<Digit(n % 10)>>

(***************************************************************************)
(* Trees.  An expression node is a record with a type tag and the fields   *)
(* the parser gives that node type; an absent expression (null) is none.   *)
(*   column_ref   table, column          binary_expr  operator, left,      *)
(*   unary_expr   operator, expr                      right, parentheses   *)
(*   function     name, args = expr_list aggr_func    name, args = [expr]  *)
(*   expr_list    value (a list)         case         args = when/else list*)
(*   number, single_quote_string, star   value                             *)
(*   subquery     ast (a query)                                            *)
(* A query is a record columns, from, where, groupby, having, orderby.     *)
(* An absent list (from, orderby) is the empty list: the code only tests   *)
(* lists for truthiness and then iterates.  groupby is                     *)
(* [isArray, columns]: the array the code iterates and sorts, or the       *)
(* object form {columns, modifiers} that is not iterable.                  *)
(***************************************************************************)
none == [type |-> "none"]

Truthy(e) == e.type # "none"

Has(e, f) == f \in DOMAIN e

ColumnRef(t, c) == [type |-> "column_ref", table |-> t, column |-> c]

BinaryExpr(op, l, r) ==
    [type |-> "binary_expr", operator |-> op, left |-> l, right |-> r, parentheses |-> FALSE]

Paren(e) == [e EXCEPT !.parentheses = TRUE]

UnaryExpr(op, e) == [type |-> "unary_expr", operator |-> op, expr |-> e]

Number(n) == [type |-> "number", value |-> n]

SingleQuoteString(s) == [type |-> "single_quote_string", value |-> s]

DoubleQuoteString(s) == [type |-> "double_quote_string", value |-> s]

Star == [type |-> "star", value |-> <<"*">>]

ExprList(l) == [type |-> "expr_list", value |-> l]

Function(n, l) == [type |-> "function", name |-> n, args |-> ExprList(l)]

AggrFunc(n, e) == [type |-> "aggr_func", name |-> n, args |-> [expr |-> e]]

Subquery(q) == [type |-> "subquery", ast |-> q]

\* the all-columns marker of the select list (columns is the string of one star)
AllColumns == <<[type |-> "*"]>>

Column(e, a) == [expr |-> e, as |-> a]

TableRef(t, a, j, o) == [table |-> t, as |-> a, join |-> j, on |-> o]

OrderBy(e, d) == [expr |-> e, type |-> d]

GroupByArray(l) == [isArray |-> TRUE, columns |-> l]

GroupByObject(l) == [isArray |-> FALSE, columns |-> l]

Select(c, f, w, g, h, o) ==
    [type |-> "select", columns |-> c, from |-> f, where |-> w,
     groupby |-> g, having |-> h, orderby |-> o]

(***************************************************************************)
(* aliasResolver.js                                                        *)
(***************************************************************************)
\* the quote characters of the regex; the backquote has no string literal
\* in this notation and is left out of the alphabet
IsQuote(c) == c \in {"\"", "'"}

\* replace(/^[quote]|[quote]$/g, empty).toLowerCase(): one leading and one
\* trailing quote character are removed
normalizeTableName(name) ==
    IF name = <<>> THEN <<>>
    ELSE LET s1 == IF IsQuote(Head(name)) THEN Tail(name) ELSE name
             s2 == IF s1 # <<>> /\ IsQuote(s1[Len(s1)])
                   THEN SubSeq(s1, 1, Len(s1) - 1) ELSE s1
         IN  toLowerCase(s2)

\* new Map() and Map.prototype.set
EmptyMap == [k \in {} |-> <<>>]

MapSet(m, k, v) == [x \in DOMAIN m \cup {k} |-> IF x = k THEN v ELSE m[x]]

RECURSIVE buildAliasMapFrom(_, _)
buildAliasMapFrom(from, aliasMap) ==
    IF from = <<>> THEN aliasMap
    ELSE LET table == Head(from)
             tableName == normalizeTableName(table.table)
             m == IF table.table # <<>> /\ table.as # <<>>
                  THEN MapSet(MapSet(aliasMap, toLowerCase(table.as), tableName),
                              tableName, tableName)
                  ELSE IF table.table # <<>>
                  THEN MapSet(aliasMap, tableName, tableName)
                  ELSE aliasMap
         IN  buildAliasMapFrom(Tail(from), m)

buildAliasMap(ast) ==
    IF ~Truthy(ast) THEN EmptyMap ELSE buildAliasMapFrom(ast.from, EmptyMap)

\* a variant that rebuilds the entry from its table name alone, and so drops
\* the join type with the alias
normalizeTableEntryDroppingJoin(table) ==
    [table EXCEPT !.table = IF table.table # <<>> THEN normalizeTableName(table.table)
                            ELSE table.table,
                  !.as = <<>>,
                  !.join = <<>>]

normalizeTableEntry(table) ==
    [table EXCEPT !.table = IF table.table # <<>> THEN normalizeTableName(table.table)
                            ELSE table.table,
                  !.as = <<>>]

\* the single-table inference at the head of resolveAstAliases
ImplicitTable(ast) ==
    IF Len(ast.from) = 1 /\ ast.from[1].table # <<>>
    THEN normalizeTableName(ast.from[1].table) ELSE <<>>

RECURSIVE resolveExpressionAliasesInPlace(_, _, _)
RECURSIVE resolveAstAliases(_, _)

\* the column_ref branch: an alias qualifier is resolved, a missing one is
\* filled in with the implicit table
ResolveColumnRef(expr, aliasMap, implicitTable) ==
    IF expr.table # <<>>
    THEN IF normalizeTableName(expr.table) \in DOMAIN aliasMap
         THEN [expr EXCEPT !.table = aliasMap[normalizeTableName(expr.table)]]
         ELSE expr
    ELSE IF implicitTable # <<>> THEN [expr EXCEPT !.table = implicitTable] ELSE expr

\* a subquery resolved in the scope around it: the alias map and the implicit
\* table of the enclosing query are applied inside (not what the code does)
ResolveSubqueryInEnclosingScope(expr, aliasMap, implicitTable) ==
    [expr EXCEPT
       !.ast = [resolveAstAliases(@, aliasMap) EXCEPT
                  !.columns = [i \in 1..Len(@) |->
                                 [@[i] EXCEPT !.expr = ResolveColumnRef(@, aliasMap,
                                                                        implicitTable)]]]]

\* the ast branch: a subquery is resolved with a map built from its own FROM
ResolveSubquery(expr, aliasMap, implicitTable) ==
    [expr EXCEPT !.ast = resolveAstAliases(@, buildAliasMap(@))]

\* The tests of the function are on the fields a node has; every node type
\* has a fixed set of fields, so the tests are taken per node type:
\* left and right (binary_expr), args.value (function), args.expr
\* (aggr_func), args with cond and result (case), value (expr_list), ast
\* (subquery).  No test is on the field expr of a unary_expr node.
resolveExpressionAliasesInPlace(expr, aliasMap, implicitTable) ==
    CASE ~Truthy(expr) -> expr
      [] expr.type = "column_ref" -> ResolveColumnRef(expr, aliasMap, implicitTable)
      [] expr.type = "binary_expr" ->
            [expr EXCEPT
               !.left = resolveExpressionAliasesInPlace(@, aliasMap, implicitTable),
               !.right = resolveExpressionAliasesInPlace(@, aliasMap, implicitTable)]
      [] expr.type = "function" ->
            [expr EXCEPT !.args.value =
               [i \in 1..Len(@) |->
                   resolveExpressionAliasesInPlace(@[i], aliasMap, implicitTable)]]
      [] expr.type = "aggr_func" ->
            [expr EXCEPT
               !.args.expr = resolveExpressionAliasesInPlace(@, aliasMap, implicitTable)]
      [] expr.type = "case" ->
            [expr EXCEPT !.args =
               [i \in 1..Len(@) |->
                   [@[i] EXCEPT
                      !.cond = resolveExpressionAliasesInPlace(@, aliasMap, implicitTable),
                      !.result = resolveExpressionAliasesInPlace(@, aliasMap,
                                                                 implicitTable)]]]
      [] expr.type = "expr_list" ->
            [expr EXCEPT !.value =
               [i \in 1..Len(@) |->
                   resolveExpressionAliasesInPlace(@[i], aliasMap, implicitTable)]]
      [] expr.type = "subquery" -> ResolveSubquery(expr, aliasMap, implicitTable)
      [] OTHER -> expr

resolveAstAliases(ast, aliasMap) ==
    IF ~Truthy(ast) THEN ast
    ELSE
    LET implicitTable == ImplicitTable(ast)
        resolveWithImplicit(expr) ==
            IF ~Truthy(expr) THEN expr
            ELSE LET e == IF expr.type = "column_ref" /\ expr.table = <<>>
                             /\ implicitTable # <<>>
                          THEN [expr EXCEPT !.table = implicitTable] ELSE expr
                 IN  resolveExpressionAliasesInPlace(e, aliasMap, implicitTable)
        columns == IF ast.columns = AllColumns THEN ast.columns
                   ELSE [i \in 1..Len(ast.columns) |->
                            [ast.columns[i] EXCEPT !.expr = resolveWithImplicit(@)]]
        from == [i \in 1..Len(ast.from) |->
                    LET t == normalizeTableEntry(ast.from[i])
                    IN  [t EXCEPT !.on = resolveWithImplicit(@)]]
        groupby == [ast.groupby EXCEPT !.columns =
                        [i \in 1..Len(@) |-> resolveWithImplicit(@[i])]]
        orderby == [i \in 1..Len(ast.orderby) |->
                        [ast.orderby[i] EXCEPT !.expr = resolveWithImplicit(@)]]
    IN  [ast EXCEPT !.columns = columns,
                    !.from = from,
                    !.where = resolveWithImplicit(@),
                    !.groupby = groupby,
                    !.having = resolveWithImplicit(@),
                    !.orderby = orderby]

(***************************************************************************)
(* JSON.stringify of a node, with the field order the parser builds the    *)
(* node in.  Used by generateSortKey for function arguments and for the    *)
(* node types it has no case for.                                          *)
(***************************************************************************)
RECURSIVE JSONString(_)
JSONString(s) ==
    IF s = <<>> THEN <<>>
    ELSE (IF Head(s) \in {"\"", "\\"} THEN <<"\\", Head(s)>> ELSE <<Head(s)>>)
         \o JSONString(Tail(s))

JSONQuoted(s) == <<"\"">> \o JSONString(s) \o <<"\"">>

\* a string-valued field that is null when absent
JSONNullable(s) == IF s = <<>> THEN <<"n","u","l","l">> ELSE JSONQuoted(s)

RECURSIVE JSONStringify(_)
RECURSIVE JSONArray(_)

JSONArray(l) ==
    IF l = <<>> THEN <<>>
    ELSE JSONStringify(Head(l))
         \o (IF Tail(l) = <<>> THEN <<>> ELSE <<",">>) \o JSONArray(Tail(l))

JSONStringify(e) ==
    CASE e.type = "none" -> <<"n","u","l","l">>
      [] e.type = "column_ref" ->
            <<"{","\"","t","y","p","e","\"",":","\"","c","o","l","u","m","n","_","r","e","f","\"",
              ",","\"","t","a","b","l","e","\"",":">> \o JSONNullable(e.table)
            \o <<",","\"","c","o","l","u","m","n","\"",":">> \o JSONQuoted(e.column) \o <<"}">>
      [] e.type = "number" ->
            <<"{","\"","t","y","p","e","\"",":","\"","n","u","m","b","e","r","\"",",","\"","v",
              "a","l","u","e","\"",":">> \o String(e.value) \o <<"}">>
      [] e.type = "single_quote_string" ->
            <<"{","\"","t","y","p","e","\"",":","\"","s","i","n","g","l","e","_","q","u","o","t",
              "e","_","s","t","r","i","n","g","\"",",","\"","v","a","l","u","e","\"",
              ":">> \o JSONQuoted(e.value) \o <<"}">>
      [] e.type = "double_quote_string" ->
            <<"{","\"","t","y","p","e","\"",":","\"","d","o","u","b","l","e","_","q","u","o","t",
              "e","_","s","t","r","i","n","g","\"",",","\"","v","a","l","u","e","\"",
              ":">> \o JSONQuoted(e.value) \o <<"}">>
      [] e.type = "star" ->
            <<"{","\"","t","y","p","e","\"",":","\"","s","t","a","r","\"",",","\"","v","a","l",
              "u","e","\"",":">> \o JSONQuoted(e.value) \o <<"}">>
      [] e.type = "expr_list" ->
            <<"{","\"","t","y","p","e","\"",":","\"","e","x","p","r","_","l","i","s","t","\"",",",
              "\"","v","a","l","u","e","\"",":","[">> \o JSONArray(e.value) \o <<"]","}">>
      [] e.type = "function" ->
            <<"{","\"","t","y","p","e","\"",":","\"","f","u","n","c","t","i","o","n","\"",",",
              "\"","n","a","m","e","\"",":">> \o JSONQuoted(e.name)
            \o <<",","\"","a","r","g","s","\"",":">> \o JSONStringify(e.args) \o <<"}">>
      [] e.type = "aggr_func" ->
            <<"{","\"","t","y","p","e","\"",":","\"","a","g","g","r","_","f","u","n","c","\"",",",
              "\"","n","a","m","e","\"",":">> \o JSONQuoted(e.name)
            \o <<",","\"","a","r","g","s","\"",":","{","\"","e","x","p","r","\"",
              ":">> \o JSONStringify(e.args.expr) \o <<"}","}">>
      [] e.type = "binary_expr" ->
            <<"{","\"","t","y","p","e","\"",":","\"","b","i","n","a","r","y","_","e","x","p","r",
              "\"",",","\"","o","p","e","r","a","t","o","r","\"",":">> \o JSONQuoted(e.operator)
            \o <<",","\"","l","e","f","t","\"",":">> \o JSONStringify(e.left)
            \o <<",","\"","r","i","g","h","t","\"",":">> \o JSONStringify(e.right)
            \o (IF e.parentheses THEN <<",","\"","p","a","r","e","n","t","h","e","s","e","s","\"",
              ":","t","r","u","e">> ELSE <<>>) \o <<"}">>
      [] e.type = "unary_expr" ->
            <<"{","\"","t","y","p","e","\"",":","\"","u","n","a","r","y","_","e","x","p","r","\"",
              ",","\"","o","p","e","r","a","t","o","r","\"",":">> \o JSONQuoted(e.operator)
            \o <<",","\"","e","x","p","r","\"",":">> \o JSONStringify(e.expr) \o <<"}">>
      [] e.type = "case" ->
            <<"{","\"","t","y","p","e","\"",":","\"","c","a","s","e","\"",",","\"","e","x","p",
              "r","\"",":","n","u","l","l",",","\"","a","r","g","s","\"",":",
              "[">> \o JSONArray(e.args) \o <<"]","}">>
      [] e.type = "when" ->
            <<"{","\"","t","y","p","e","\"",":","\"","w","h","e","n","\"",",","\"","c","o","n",
              "d","\"",":">> \o JSONStringify(e.cond)
            \o <<",","\"","r","e","s","u","l","t","\"",":">> \o JSONStringify(e.result) \o <<"}">>
      [] e.type = "else" ->
            <<"{","\"","t","y","p","e","\"",":","\"","e","l","s","e","\"",",","\"","r","e","s",
              "u","l","t","\"",":">> \o JSONStringify(e.result) \o <<"}">>
      [] e.type = "subquery" ->
            <<"{","\"","a","s","t","\"",":">> \o JSONStringify(e.ast) \o <<",","\"","p","a","r",
              "e","n","t","h","e","s","e","s","\"",":","t","r","u","e","}">>
      [] e.type = "select" ->
            <<"{","\"","t","y","p","e","\"",":","\"","s","e","l","e","c","t","\"",",","\"","c",
              "o","l","u","m","n","s","\"",":">> \o
            (IF e.columns = AllColumns THEN JSONQuoted(<<"*">>)
             ELSE <<"[">> \o JSONArray([i \in 1..Len(e.columns) |->
                                 [type |-> "column", expr |-> e.columns[i].expr,
                                  as |-> e.columns[i].as]]) \o <<"]">>)
            \o <<",","\"","f","r","o","m","\"",":","[">> \o
            JSONArray([i \in 1..Len(e.from) |->
                          [type |-> "table", table |-> e.from[i].table,
                           as |-> e.from[i].as, join |-> e.from[i].join,
                           on |-> e.from[i].on]]) \o <<"]">>
            \o <<",","\"","w","h","e","r","e","\"",":">> \o JSONStringify(e.where)
            \o <<",","\"","g","r","o","u","p","b","y","\"",":",
              "[">> \o JSONArray(e.groupby.columns) \o <<"]">>
            \o <<",","\"","h","a","v","i","n","g","\"",":">> \o JSONStringify(e.having)
            \o <<",","\"","o","r","d","e","r","b","y","\"",":","[">> \o
            JSONArray([i \in 1..Len(e.orderby) |->
                          [type |-> "order", expr |-> e.orderby[i].expr,
                           dir |-> e.orderby[i].type]]) \o <<"]","}">>
      [] e.type = "column" ->
            <<"{","\"","e","x","p","r","\"",":">> \o JSONStringify(e.expr)
            \o <<",","\"","a","s","\"",":">> \o JSONNullable(e.as) \o <<"}">>
      [] e.type = "table" ->
            <<"{","\"","d","b","\"",":","n","u","l","l",",","\"","t","a","b","l","e","\"",
              ":">> \o JSONNullable(e.table)
            \o <<",","\"","a","s","\"",":">> \o JSONNullable(e.as)
            \o (IF e.join = <<>> THEN <<>>
                ELSE <<",","\"","j","o","i","n","\"",":">> \o JSONQuoted(e.join)
                     \o <<",","\"","o","n","\"",":">> \o JSONStringify(e.on)) \o <<"}">>
      [] e.type = "order" ->
            <<"{","\"","e","x","p","r","\"",":">> \o JSONStringify(e.expr)
            \o <<",","\"","t","y","p","e","\"",":">> \o JSONQuoted(e.dir) \o <<"}">>

(***************************************************************************)
(* elementSorter.js                                                        *)
(***************************************************************************)
RECURSIVE generateSortKey(_)
generateSortKey(expr) ==
    IF ~Truthy(expr) THEN <<>>
    ELSE IF expr.type = "column_ref"
    THEN toLowerCase(expr.table \o <<".">> \o expr.column)
    ELSE IF expr.type = "binary_expr"
    THEN generateSortKey(expr.left) \o <<"|">> \o expr.operator \o <<"|">>
         \o generateSortKey(expr.right)
    ELSE IF expr.type \in {"function", "aggr_func"}
    THEN toLowerCase(<<"f","n",":">> \o expr.name \o <<"(">>
                     \o (IF expr.type = "function" THEN JSONStringify(expr.args)
                         ELSE <<"{","\"","e","x","p","r","\"",
                           ":">> \o JSONStringify(expr.args.expr) \o <<"}">>)
                     \o <<")">>)
    ELSE IF expr.type = "number" THEN String(expr.value)
    ELSE IF expr.type \in {"single_quote_string", "string"}
    THEN <<"\"">> \o expr.value \o <<"\"">>
    ELSE IF expr.type = "star" THEN <<"*">>
    ELSE toLowerCase(JSONStringify(expr))

\* Array.prototype.sort with the comparator keyA.localeCompare(keyB), on the
\* list of [key, item] pairs: the sort is stable, so inserting each element
\* after the last one that does not compare greater gives its result
RECURSIVE InsertSorted(_, _)
InsertSorted(sorted, x) ==
    IF sorted = <<>> THEN <<x>>
    ELSE LET last == sorted[Len(sorted)]
         IN  IF localeCompare(last.key, x.key) <= 0 THEN Append(sorted, x)
             ELSE Append(InsertSorted(SubSeq(sorted, 1, Len(sorted) - 1), x), last)

RECURSIVE SortFrom(_, _)
SortFrom(sorted, rest) ==
    IF rest = <<>> THEN sorted
    ELSE SortFrom(InsertSorted(sorted, Head(rest)), Tail(rest))

ArraySort(list, Key(_)) ==
    LET keyed == [i \in 1..Len(list) |-> [key |-> Key(list[i]), item |-> list[i]]]
        sorted == SortFrom(<<>>, keyed)
    IN  [i \in 1..Len(sorted) |-> sorted[i].item]

\* the two children of the node only, chains below them left as operands
\* (not what the code does)
flattenConditionsOneLevel(expr, operator) ==
    IF ~Truthy(expr) THEN <<>>
    ELSE IF expr.type = "binary_expr" /\ toUpperCase(expr.operator) = operator
    THEN <<expr.left, expr.right>>
    ELSE <<expr>>

RECURSIVE flattenConditions(_, _)
flattenConditions(expr, operator) ==
    IF ~Truthy(expr) THEN <<>>
    ELSE IF expr.type = "binary_expr" /\ toUpperCase(expr.operator) = operator
    THEN flattenConditions(expr.left, operator) \o flattenConditions(expr.right, operator)
    ELSE <<expr>>

RECURSIVE rebuildLoop(_, _, _, _)
rebuildLoop(conditions, operator, i, result) ==
    IF i < 1 THEN result
    ELSE rebuildLoop(conditions, operator, i - 1,
            [type |-> "binary_expr", operator |-> toUpperCase(operator),
             left |-> conditions[i], right |-> result, parentheses |-> FALSE])

\* the rebuilt chain nodes carry type, operator, left and right only
rebuildConditionTree(conditions, operator) ==
    IF Len(conditions) = 0 THEN none
    ELSE IF Len(conditions) = 1 THEN conditions[1]
    ELSE rebuildLoop(conditions, operator, Len(conditions) - 1,
                     conditions[Len(conditions)])

RECURSIVE sortWhereConditionsInPlace(_)
sortWhereConditionsInPlace(expr) ==
    IF ~Truthy(expr) THEN expr
    ELSE IF expr.type = "binary_expr" /\ toUpperCase(expr.operator) = <<"A","N","D">>
    THEN LET conditions == flattenConditions(expr, <<"A","N","D">>)
             mapped == [i \in 1..Len(conditions) |->
                           sortWhereConditionsInPlace(conditions[i])]
         IN  rebuildConditionTree(ArraySort(mapped, generateSortKey), <<"A","N","D">>)
    ELSE IF expr.type = "binary_expr" /\ toUpperCase(expr.operator) = <<"O","R">>
    THEN LET conditions == flattenConditions(expr, <<"O","R">>)
             mapped == [i \in 1..Len(conditions) |->
                           sortWhereConditionsInPlace(conditions[i])]
         IN  rebuildConditionTree(ArraySort(mapped, generateSortKey), <<"O","R">>)
    ELSE IF expr.type = "binary_expr"
    THEN LET commutativeOps == {<<"=">>, <<"!","=">>, <<"<",">">>, <<"A","N","D">>, <<"O","R">>}
             leftKey == generateSortKey(expr.left)
             rightKey == generateSortKey(expr.right)
         IN  IF /\ toUpperCase(expr.operator) \in commutativeOps
                /\ CodeUnitLess(rightKey, leftKey)
                /\ expr.operator = <<"=">>
             THEN [expr EXCEPT !.left = expr.right, !.right = expr.left]
             ELSE expr
    ELSE expr

\* the clone is a new tree with the same value
sortWhereConditions(where) ==
    IF ~Truthy(where) THEN where ELSE sortWhereConditionsInPlace(where)

IsStarColumn(c) == Truthy(c.expr) /\ c.expr.type = "star"

ColumnKey(c) == generateSortKey(c.expr)

\* the star entries put after the sorted entries (not what the code does)
sortSelectColumnsStarsLast(columns) ==
    IF columns = AllColumns THEN columns
    ELSE LET NotStar(c) == ~IsStarColumn(c)
         IN  ArraySort(SelectSeq(columns, NotStar), ColumnKey)
             \o SelectSeq(columns, IsStarColumn)

sortSelectColumns(columns) ==
    IF columns = AllColumns THEN columns
    ELSE LET starCols == SelectSeq(columns, IsStarColumn)
             NotStar(c) == ~IsStarColumn(c)
             otherCols == SelectSeq(columns, NotStar)
         IN  starCols \o ArraySort(otherCols, ColumnKey)

JoinKey(a) == toLowerCase(a.join \o <<".">> \o a.table)

\* the joins sorted, their ON predicates left as they are (not what the code
\* does)
sortJoinClausesKeepingOn(from) ==
    IF Len(from) <= 1 THEN from ELSE <<from[1]>> \o ArraySort(Tail(from), JoinKey)

sortJoinClauses(from) ==
    IF Len(from) <= 1 THEN from
    ELSE LET mainTable == from[1]
             joins == ArraySort(Tail(from), JoinKey)
         IN  <<mainTable>> \o
             [i \in 1..Len(joins) |-> [joins[i] EXCEPT !.on = sortWhereConditions(@)]]

\* on the array form; on the object form result.sort is not a function
sortGroupBy(groupby) ==
    [groupby EXCEPT !.columns = ArraySort(@, generateSortKey)]

(***************************************************************************)
(* sqlNormalizer.js: the stages of normalizeQuery                          *)
(***************************************************************************)
\* a string-or-null value of a result field
JSNull == [isNull |-> TRUE, value |-> <<>>]

Str(s) == [isNull |-> FALSE, value |-> s]

\* !x for a string-or-null value
Falsy(x) == x.isNull \/ x.value = <<>>

\* Step 1: if (resolveAliases) resolveAstAliases(ast, buildAliasMap(ast))
StepResolveAliases(ast, opts) ==
    IF opts.resolveAliases THEN resolveAstAliases(ast, buildAliasMap(ast)) ELSE ast

\* a variant of the implicit step without the tests of !col.as: the name
\* replaces the alias that was written (not what the code does)
StepSelectAliasesOverwriting(ast) ==
    IF ast.columns = AllColumns THEN ast
    ELSE [ast EXCEPT !.columns =
            [i \in 1..Len(@) |->
                LET col == @[i]
                IN  IF Truthy(col.expr) /\ col.expr.type = "column_ref"
                    THEN [col EXCEPT !.as = col.expr.column]
                    ELSE IF Truthy(col.expr) /\ col.expr.type = "double_quote_string"
                    THEN [col EXCEPT !.as = col.expr.value]
                    ELSE col]]

\* Implicit step: every select entry without an alias whose expression is a
\* column reference (or a double-quoted string) gets its name as alias
StepSelectAliases(ast) ==
    IF ast.columns = AllColumns THEN ast
    ELSE [ast EXCEPT !.columns =
            [i \in 1..Len(@) |->
                LET col == @[i]
                    c1 == IF col.as = <<>> /\ Truthy(col.expr)
                             /\ col.expr.type = "column_ref"
                          THEN [col EXCEPT !.as = col.expr.column] ELSE col
                    c2 == IF c1.as = <<>> /\ Truthy(c1.expr)
                             /\ c1.expr.type = "double_quote_string"
                          THEN [c1 EXCEPT !.as = c1.expr.value] ELSE c1
                IN  c2]]

\* Step 2
StepSortColumns(ast, opts) ==
    IF opts.sortColumns THEN [ast EXCEPT !.columns = sortSelectColumns(@)] ELSE ast

\* Step 3
StepSortJoins(ast, opts) ==
    IF opts.sortJoins THEN [ast EXCEPT !.from = sortJoinClauses(@)] ELSE ast

\* Step 4
StepSortWhere(ast, opts) ==
    IF opts.sortWhere /\ Truthy(ast.where)
    THEN [ast EXCEPT !.where = sortWhereConditions(@)] ELSE ast

\* a variant of Step 5 that takes ORDER BY for an unordered list too
StepSortGroupByAndOrderBy(ast, opts) ==
    IF opts.sortGroupBy
    THEN [ast EXCEPT !.groupby = sortGroupBy(@),
                     !.orderby = ArraySort(@, LAMBDA o : generateSortKey(o.expr))]
    ELSE ast

\* Step 5
StepSortGroupBy(ast, opts) ==
    IF opts.sortGroupBy THEN [ast EXCEPT !.groupby = sortGroupBy(@)] ELSE ast

\* the stages inside the try block, in order
Canonicalize(ast, opts) ==
    StepSortGroupBy(
      StepSortWhere(
        StepSortJoins(
          StepSortColumns(
            StepSelectAliases(
              StepResolveAliases(ast, opts)), opts), opts), opts), opts)

\* A stage throws a TypeError when groupby is the object form: the for-of of
\* resolveAstAliases (not iterable) and result.sort of sortGroupBy (not a
\* function).  Subqueries are drawn with array-form groupby.
ResolveThrows(ast, opts) == opts.resolveAliases /\ ~ast.groupby.isArray

SortGroupByThrows(ast, opts) == opts.sortGroupBy /\ ~ast.groupby.isArray

StageError(ast, opts) ==
    IF ResolveThrows(ast, opts) THEN <<"a","s","t",".","g","r","o","u","p","b","y"," ","i","s",
      " ","n","o","t"," ","i","t","e","r","a","b","l","e">>
    ELSE IF SortGroupByThrows(ast, opts) THEN <<"r","e","s","u","l","t",".","s","o","r","t"," ",
      "i","s"," ","n","o","t"," ","a"," ","f","u","n","c","t","i","o","n">>
    ELSE <<>>

(***************************************************************************)
(* parser.sqlify, as astToSQL calls it: the text of a tree.  Identifiers   *)
(* are written in double quotes, keywords in upper case, list items are    *)
(* separated by a comma and a space.  A tree whose statement type the      *)
(* serializer has no case for makes it throw.                              *)
(***************************************************************************)
RECURSIVE JoinWith(_, _)
JoinWith(l, sep) ==
    IF l = <<>> THEN <<>>
    ELSE IF Tail(l) = <<>> THEN Head(l)
    ELSE Head(l) \o sep \o JoinWith(Tail(l), sep)

Identifier(s) == <<"\"">> \o s \o <<"\"">>

RECURSIVE exprToSQL(_)
RECURSIVE selectToSQL(_)

exprToSQL(e) ==
    CASE e.type = "none" -> <<>>
      [] e.type = "column_ref" ->
            (IF e.table # <<>> THEN Identifier(e.table) \o <<".">> ELSE <<>>)
            \o (IF e.column = <<"*">> THEN e.column ELSE Identifier(e.column))
      [] e.type = "number" -> String(e.value)
      [] e.type = "single_quote_string" -> <<"'">> \o e.value \o <<"'">>
      [] e.type = "double_quote_string" -> <<"\"">> \o e.value \o <<"\"">>
      [] e.type = "star" -> e.value
      [] e.type = "expr_list" ->
            <<"(">> \o JoinWith([i \in 1..Len(e.value) |-> exprToSQL(e.value[i])], <<","," ">>)
            \o <<")">>
      [] e.type = "function" -> e.name \o exprToSQL(e.args)
      [] e.type = "aggr_func" -> e.name \o <<"(">> \o exprToSQL(e.args.expr) \o <<")">>
      [] e.type = "binary_expr" ->
            LET s == exprToSQL(e.left) \o <<" ">> \o e.operator \o <<" ">>
                     \o exprToSQL(e.right)
            IN  IF e.parentheses THEN <<"(">> \o s \o <<")">> ELSE s
      [] e.type = "unary_expr" -> e.operator \o <<" ">> \o exprToSQL(e.expr)
      [] e.type = "case" ->
            <<"C","A","S","E",
              " ">> \o JoinWith([i \in 1..Len(e.args) |-> exprToSQL(e.args[i])], <<" ">>)
            \o <<" ","E","N","D">>
      [] e.type = "when" ->
            <<"W","H","E","N"," ">> \o exprToSQL(e.cond) \o <<" ","T","H","E","N",
              " ">> \o exprToSQL(e.result)
      [] e.type = "else" -> <<"E","L","S","E"," ">> \o exprToSQL(e.result)
      [] e.type = "subquery" -> <<"(">> \o selectToSQL(e.ast) \o <<")">>

columnToSQL(c) ==
    exprToSQL(c.expr) \o (IF c.as # <<>> THEN <<" ","A","S"," ">> \o Identifier(c.as) ELSE <<>>)

tableToSQL(t) ==
    Identifier(t.table) \o (IF t.as # <<>> THEN <<" ","A","S"," ">> \o Identifier(t.as) ELSE <<>>)

RECURSIVE joinsToSQL(_)
joinsToSQL(joins) ==
    IF joins = <<>> THEN <<>>
    ELSE LET t == Head(joins)
         IN  (IF t.join = <<>> THEN <<","," ">> \o tableToSQL(t)
              ELSE <<" ">> \o t.join \o <<" ">> \o tableToSQL(t)
                   \o (IF Truthy(t.on) THEN <<" ","O","N"," ">> \o exprToSQL(t.on) ELSE <<>>))
             \o joinsToSQL(Tail(joins))

selectToSQL(ast) ==
    <<"S","E","L","E","C","T"," ">>
    \o (IF ast.columns = AllColumns THEN <<"*">>
        ELSE JoinWith([i \in 1..Len(ast.columns) |-> columnToSQL(ast.columns[i])], <<","," ">>))
    \o (IF ast.from # <<>>
        THEN <<" ","F","R","O","M"," ">> \o tableToSQL(ast.from[1]) \o joinsToSQL(Tail(ast.from))
        ELSE <<>>)
    \o (IF Truthy(ast.where) THEN <<" ","W","H","E","R","E"," ">> \o exprToSQL(ast.where) ELSE <<>>)
    \o (IF ast.groupby.columns # <<>>
        THEN <<" ","G","R","O","U","P"," ","B","Y"," ">>
             \o JoinWith([i \in 1..Len(ast.groupby.columns) |->
                             exprToSQL(ast.groupby.columns[i])], <<","," ">>)
        ELSE <<>>)
    \o (IF Truthy(ast.having) THEN <<" ","H","A","V","I","N","G",
      " ">> \o exprToSQL(ast.having) ELSE <<>>)
    \o (IF ast.orderby # <<>>
        THEN <<" ","O","R","D","E","R"," ","B","Y"," ">>
             \o JoinWith([i \in 1..Len(ast.orderby) |->
                             exprToSQL(ast.orderby[i].expr) \o <<" ">>
                             \o ast.orderby[i].type], <<","," ">>)
        ELSE <<>>)

SqlifyThrows(ast) == ast.type # "select"

\* the type of a statement as text
StatementType(ast) == IF ast.type = "select" THEN <<"s","e","l","e","c","t">> ELSE <<"u","n","k",
  "n","o","w","n">>

\* astToSQL: the text, or the placeholder when the serializer throws
astToSQL(ast) ==
    IF SqlifyThrows(ast)
    THEN <<"/","*"," ","E","r","r","o","r"," ","g","e","n","e","r","a","t","i","n","g"," ","S",
      "Q","L",":"," ">> \o StatementType(ast)
         \o <<" ","s","t","a","t","e","m","e","n","t","s"," ","n","o","t"," ","s","u","p","p","o",
           "r","t","e","d"," ","a","t"," ","t","h","e"," ","m","o","m","e","n","t"," ","*","/">>
    ELSE selectToSQL(ast)

(***************************************************************************)
(* sqlPrettifier.js.  The regular expressions are computed on the          *)
(* characters of the text: \s is a space or a line break, \b after a       *)
(* keyword is the absence of a following word character, the i flag makes  *)
(* the letters match in either case and the g flag replaces every          *)
(* non-overlapping match from left to right.                               *)
(***************************************************************************)
INDENT == <<" ", " ">>

IsWhitespace(c) == c \in {" ", "\n", "\t"}

IsWordChar(c) ==
    c \in {"a","b","c","d","e","f","g","h","i","j","k","l","m","n","o","p","q","r","s",
           "t","u","v","w","x","y","z","A","B","C","D","E","F","G","H","I","J","K","L",
           "M","N","O","P","Q","R","S","T","U","V","W","X","Y","Z","0","1","2","3","4",
           "5","6","7","8","9","_"}

UpperChar(c) == IF c \in DOMAIN toUpperCaseChar THEN toUpperCaseChar[c] ELSE c

\* F applied to the value v, which is computed first
Then(v, F(_)) == CHOOSE r \in {F(x) : x \in {v}} : TRUE

\* the pieces lo..hi of a list of strings, joined
RECURSIVE Concat(_, _, _)
Concat(pieces, lo, hi) ==
    IF lo > hi THEN <<>>
    ELSE IF lo = hi THEN pieces[lo]
    ELSE Concat(pieces, lo, (lo + hi) \div 2) \o Concat(pieces, (lo + hi) \div 2 + 1, hi)

\* \s+ from position i: the first position at or after i that holds no
\* whitespace
RECURSIVE SkipWhitespace(_, _)
SkipWhitespace(s, i) ==
    IF i <= Len(s) /\ IsWhitespace(s[i]) THEN SkipWhitespace(s, i + 1) ELSE i

\* the last position at or before i that holds no whitespace
RECURSIVE SkipWhitespaceBack(_, _)
SkipWhitespaceBack(s, i) ==
    IF i >= 1 /\ IsWhitespace(s[i]) THEN SkipWhitespaceBack(s, i - 1) ELSE i

\* String.prototype.trim
trim(s) == SubSeq(s, SkipWhitespace(s, 1), SkipWhitespaceBack(s, Len(s)))

\* a run of whitespace starts at position i
RunStartsAt(s, i) == IsWhitespace(s[i]) /\ (i = 1 \/ ~IsWhitespace(s[i - 1]))

\* the keyword kw (upper case) stands at position i, in either case
MatchesAt(s, i, kw) ==
    /\ i + Len(kw) - 1 <= Len(s)
    /\ \A k \in 1..Len(kw) : UpperChar(s[i + k - 1]) = kw[k]

\* \b after the word character at position j
BoundaryAfter(s, j) == j >= Len(s) \/ ~IsWordChar(s[j + 1])

\* replace(/\s+/g, one space)
CollapseWhitespace(s) ==
    Concat([i \in 1..Len(s) |->
               IF ~IsWhitespace(s[i]) THEN <<s[i]>>
               ELSE IF RunStartsAt(s, i) THEN <<" ">> ELSE <<>>], 1, Len(s))

\* s with the stretches that start at the positions in starts, each up to
\* End(start), replaced
Replaced(s, starts, End(_), replacement) ==
    IF starts = {} THEN s
    ELSE Concat([i \in 1..Len(s) |->
                    IF i \in starts THEN replacement
                    ELSE IF \E q \in starts : q < i /\ i <= End(q) THEN <<>>
                    ELSE <<s[i]>>], 1, Len(s))

\* replace(new RegExp(\s+keyword\b, gi), replacement): a match starts where
\* a run of whitespace starts and the keyword follows the run
ReplaceBeforeKeyword(s, kw, replacement) ==
    LET KeywordEnd(q) == SkipWhitespace(s, q) + Len(kw) - 1
        starts == {q \in 1..Len(s) :
                      /\ RunStartsAt(s, q)
                      /\ MatchesAt(s, SkipWhitespace(s, q), kw)
                      /\ BoundaryAfter(s, KeywordEnd(q))}
    IN  Replaced(s, starts, KeywordEnd, replacement)

\* replace(/\s+AND\s+/gi, replacement), and the same for OR: a match takes
\* the whitespace after the keyword too, so that of two keywords in a row
\* the second has no whitespace left to start its match with
ReplaceAroundKeyword(s, kw, replacement) ==
    LET AfterKeyword(q) == SkipWhitespace(s, q) + Len(kw)
        MatchEnd(q) == SkipWhitespace(s, AfterKeyword(q)) - 1
        candidates == {q \in 1..Len(s) :
                          /\ RunStartsAt(s, q)
                          /\ MatchesAt(s, SkipWhitespace(s, q), kw)
                          /\ AfterKeyword(q) <= Len(s)
                          /\ IsWhitespace(s[AfterKeyword(q)])}
        Follows(c) == \E p \in candidates : AfterKeyword(p) = c
        InARowUpTo(q) == {p \in candidates :
                             /\ p <= q
                             /\ \A c \in candidates : p < c /\ c <= q => Follows(c)}
        starts == {q \in candidates : Cardinality(InARowUpTo(q)) % 2 = 1}
    IN  Replaced(s, starts, MatchEnd, replacement)

majorKeywords ==
    << <<"S","E","L","E","C","T">>, <<"F","R","O","M">>, <<"W","H","E","R","E">>,
        <<"O","R","D","E","R"," ","B","Y">>, <<"G","R","O","U","P"," ","B","Y">>,
            <<"H","A","V","I","N","G">>,
       <<"L","I","M","I","T">>, <<"O","F","F","S","E","T">>, <<"U","N","I","O","N">>,
           <<"E","X","C","E","P","T">>, <<"I","N","T","E","R","S","E","C","T">> >>

\* joinKeywords.sort((a, b) => b.length - a.length): longest first, stable
sortedJoins ==
    << <<"R","I","G","H","T"," ","O","U","T","E","R"," ","J","O","I","N">>,
        <<"L","E","F","T"," ","O","U","T","E","R"," ","J","O","I","N">>,
            <<"F","U","L","L"," ","O","U","T","E","R"," ","J","O","I","N">>,
                <<"R","I","G","H","T"," ","J","O","I","N">>,
       <<"I","N","N","E","R"," ","J","O","I","N">>, <<"O","U","T","E","R"," ","J","O","I","N">>,
           <<"C","R","O","S","S"," ","J","O","I","N">>, <<"L","E","F","T"," ","J","O","I","N">>,
               <<"F","U","L","L"," ","J","O","I","N">>,
       <<"J","O","I","N">> >>

\* the loops of Step 2 and Step 3
RECURSIVE ReplaceKeywords(_, _, _)
ReplaceKeywords(s, keywords, prefix) ==
    IF keywords = <<>> THEN s
    ELSE LET Rest(replaced) == ReplaceKeywords(replaced, Tail(keywords), prefix)
         IN  Then(ReplaceBeforeKeyword(s, Head(keywords), prefix \o Head(keywords)), Rest)

\* the positions of the set P, in increasing order
RECURSIVE Ascending(_, _, _)
Ascending(P, lo, hi) ==
    IF lo > hi THEN <<>>
    ELSE IF lo = hi THEN (IF lo \in P THEN <<lo>> ELSE <<>>)
    ELSE Ascending(P, lo, (lo + hi) \div 2) \o Ascending(P, (lo + hi) \div 2 + 1, hi)

\* the pieces of s between the positions in cuts
SplitAt(s, cuts) ==
    LET at == Ascending(cuts, 1, Len(s))
    IN  [n \in 1..(Len(at) + 1) |->
            SubSeq(s, IF n = 1 THEN 1 ELSE at[n - 1] + 1,
                      IF n > Len(at) THEN Len(s) ELSE at[n] - 1)]

\* splitColumns: split at the commas that are at parenthesis depth 0; a last
\* piece that is blank is dropped
splitColumns(str) ==
    LET Depth(i) == Cardinality({k \in 1..(i - 1) : str[k] = "("})
                    - Cardinality({k \in 1..(i - 1) : str[k] = ")"})
        pieces == SplitAt(str, {i \in 1..Len(str) : str[i] = "," /\ Depth(i) = 0})
        trimmed == [n \in 1..Len(pieces) |-> trim(pieces[n])]
    IN  IF trimmed[Len(trimmed)] = <<>> THEN SubSeq(trimmed, 1, Len(trimmed) - 1)
        ELSE trimmed

\* the start of the first match of \s+FROM\b at or after position i, or 0
FindFrom(s, i) ==
    LET P == {q \in i..Len(s) :
                 /\ IsWhitespace(s[q])
                 /\ MatchesAt(s, SkipWhitespace(s, q), <<"F","R","O","M">>)
                 /\ BoundaryAfter(s, SkipWhitespace(s, q) + 3)}
    IN  IF P = {} THEN 0 ELSE Min(P)

\* formatSelectColumns: match /^(SELECT\s+)(.*?)(\s+FROM\b)/is and put every
\* column of the select list on a line of its own
formatSelectColumns(sql) ==
    IF ~(MatchesAt(sql, 1, <<"S","E","L","E","C","T">>) /\ Len(sql) >= 7 /\ IsWhitespace(sql[7]))
    THEN sql
    ELSE LET q == FindFrom(sql, SkipWhitespace(sql, 7))
             columns == splitColumns(SubSeq(sql, SkipWhitespace(sql, 7), q - 1))
             formattedColumns ==
                 JoinWith([i \in 1..Len(columns) |->
                              IF i = 1 THEN trim(columns[i])
                              ELSE INDENT \o trim(columns[i])], <<",", "\n">>)
         IN  IF q = 0 \/ Len(columns) <= 1 THEN sql
             ELSE SubSeq(sql, 1, 6) \o <<"\n">> \o INDENT \o formattedColumns
                  \o <<"\n">> \o SubSeq(sql, SkipWhitespace(sql, q), Len(sql))

\* replace(/\n\s*\n/g, one line break): of a run of whitespace with two line
\* breaks or more, the stretch from the first of them to the last
CollapseBlankLines(s) ==
    LET LineBreaks(q) == {k \in q..(SkipWhitespace(s, q) - 1) : s[k] = "\n"}
        Last(q) == CHOOSE k \in LineBreaks(q) : \A j \in LineBreaks(q) : j <= k
        starts == {k \in 1..Len(s) :
                      /\ s[k] = "\n"
                      /\ \A j \in (SkipWhitespaceBack(s, k) + 1)..(k - 1) : s[j] # "\n"
                      /\ Cardinality(LineBreaks(k)) >= 2}
    IN  Replaced(s, starts, Last, <<"\n">>)

\* split at every line break
SplitLines(s) == SplitAt(s, {k \in 1..Len(s) : s[k] = "\n"})

\* line.match(/^(word|...)\b/i)
StartsWithWord(line, words) ==
    \E w \in words : MatchesAt(line, 1, w) /\ BoundaryAfter(line, Len(w))

IndentLine(line) ==
    IF StartsWithWord(line, {<<"A","N","D">>, <<"O","R">>}) THEN INDENT \o line
    ELSE IF StartsWithWord(line, {<<"L","E","F","T">>, <<"R","I","G","H","T">>,
        <<"I","N","N","E","R">>, <<"O","U","T","E","R">>,
                                  <<"F","U","L","L">>, <<"C","R","O","S","S">>,
                                      <<"J","O","I","N">>})
    THEN INDENT \o line
    ELSE line

prettifySQL(sql) ==
    IF sql = <<>> THEN <<>>
    ELSE LET Normalize(s) == CollapseWhitespace(trim(s))
             Major(s) == ReplaceKeywords(s, majorKeywords, <<"\n">>)
             Joins(s) == ReplaceKeywords(s, sortedJoins, <<"\n">> \o INDENT)
             Ands(s) == ReplaceAroundKeyword(s, <<"A","N","D">>,
                 <<"\n">> \o INDENT \o <<"A","N","D"," ">>)
             Ors(s) == ReplaceAroundKeyword(s, <<"O","R">>, <<"\n">> \o INDENT \o <<"O","R"," ">>)
             NonEmpty(line) == Len(line) > 0
             Trimmed(lines) == SelectSeq([i \in 1..Len(lines) |-> trim(lines[i])], NonEmpty)
             Indented(lines) == [i \in 1..Len(lines) |-> IndentLine(lines[i])]
             Joined(lines) == JoinWith(lines, <<"\n">>)
         IN  Then(Then(Then(Then(Then(Then(Then(Then(Then(Then(Normalize(sql), Major), Joins),
                  Ands), Ors), formatSelectColumns), CollapseBlankLines), SplitLines),
                  Trimmed), Indented), Joined)

(***************************************************************************)
(* sqlNormalizer.js: parseSQL, normalizeQuery, compareQueries.             *)
(* The parser is a collaborator: a query text is given by what astify      *)
(* does on it, which is to throw an error with a message, to return an     *)
(* empty statement list, or to return a tree.                              *)
(***************************************************************************)
ParseThrows(m) == [kind |-> "throw", message |-> m, ast |-> none]

ParseEmpty == [kind |-> "empty", message |-> <<>>, ast |-> none]

Parses(t) == [kind |-> "ast", message |-> <<>>, ast |-> t]

parseSQL(sql) ==
    IF sql.kind = "throw" THEN [ast |-> none, error |-> Str(sql.message)]
    ELSE [ast |-> sql.ast, error |-> JSNull]

ErrorResult(message) == [normalized |-> JSNull, ast |-> none, error |-> Str(message)]

EmptyOrInvalid == <<"E","m","p","t","y"," ","o","r"," ","i","n","v","a","l","i","d"," ","S","Q",
  "L">>

\* a variant of the catch clause that returns err.message as it is
BareMessage(message) == message

NormalizationError(message) == <<"N","o","r","m","a","l","i","z","a","t","i","o","n"," ","e","r",
  "r","o","r",":"," ">> \o message

\* a variant of the destructuring in which a toggle that the options object
\* does not give is off
DestructureDefaultingToFalse(opts) ==
    [t \in {"resolveAliases", "sortColumns", "sortJoins", "sortWhere", "sortGroupBy"} |->
        IF t \in DOMAIN opts THEN opts[t] ELSE FALSE]

\* the destructuring of the options object: a toggle the object does not
\* give is true
Destructure(opts) ==
    [t \in {"resolveAliases", "sortColumns", "sortJoins", "sortWhere", "sortGroupBy"} |->
        IF t \in DOMAIN opts THEN opts[t] ELSE TRUE]

\* normalizeQuery as one function
normalizeQuery(sql, options_) ==
    LET parsed == parseSQL(sql)
        opts == Destructure(options_)
    IN  IF ~Falsy(parsed.error) THEN [normalized |-> JSNull, ast |-> none, error |-> parsed.error]
        ELSE IF ~Truthy(parsed.ast) THEN ErrorResult(EmptyOrInvalid)
        ELSE IF StageError(parsed.ast, opts) # <<>>
        THEN ErrorResult(NormalizationError(StageError(parsed.ast, opts)))
        ELSE LET ast == Canonicalize(parsed.ast, opts)
             IN  [normalized |-> Str(prettifySQL(astToSQL(ast))), ast |-> ast,
                  error |-> JSNull]

\* result1.normalized === result2.normalized
StrictEqual(x, y) == x = y

\* a variant that compares the normalized texts without looking at the errors
compareQueriesIgnoringErrors(r1, r2) ==
    [isEquivalent |-> StrictEqual(r1.normalized, r2.normalized),
     normalized1 |-> r1.normalized, normalized2 |-> r2.normalized,
     error1 |-> r1.error, error2 |-> r2.error]

compareQueries(r1, r2) ==
    [isEquivalent |-> Falsy(r1.error) /\ Falsy(r2.error)
                      /\ StrictEqual(r1.normalized, r2.normalized),
     normalized1 |-> r1.normalized, normalized2 |-> r2.normalized,
     error1 |-> r1.error, error2 |-> r2.error]

(***************************************************************************)
(* The run of compareQueries(sql1, sql2, options): normalizeQuery on the   *)
(* first text, stage by stage, then on the second, then the verdict.       *)
(***************************************************************************)
NoResult == [normalized |-> JSNull, ast |-> none, error |-> JSNull]

NoComparison ==
    [isEquivalent |-> FALSE, normalized1 |-> JSNull, normalized2 |-> JSNull,
     error1 |-> JSNull, error2 |-> JSNull]

\* the toggles of the run, as normalizeQuery reads them from options
toggles == Destructure(options)

At(side, stage) == pc = [side |-> side, at |-> stage]

Sql(side) == IF side = 1 THEN sql1 ELSE sql2

\* normalizeQuery returns r for the given side; the caller goes on
Return(side, r) ==
    /\ IF side = 1
       THEN result1' = r /\ UNCHANGED result2 /\ pc' = [side |-> 2, at |-> "parse"]
       ELSE result2' = r /\ UNCHANGED result1 /\ pc' = [side |-> 0, at |-> "compare"]
    /\ normalizedAst' = none
    /\ UNCHANGED <<sql1, sql2, options, comparison, appVars>>

\* the stage is done and the next one is to run
Continue(side, ast, stage) ==
    /\ normalizedAst' = ast
    /\ pc' = [side |-> side, at |-> stage]
    /\ UNCHANGED <<sql1, sql2, options, result1, result2, comparison, appVars>>

\* a variant in which the error of the first text ends the comparison: the
\* second text is not normalized
ParseFailsAborts(side) ==
    /\ At(side, "parse")
    /\ ~Falsy(parseSQL(Sql(side)).error)
    /\ IF side = 1 THEN result1' = ErrorResult(parseSQL(Sql(side)).error.value) /\ UNCHANGED result2
       ELSE result2' = ErrorResult(parseSQL(Sql(side)).error.value) /\ UNCHANGED result1
    /\ pc' = [side |-> 0, at |-> "compare"]
    /\ normalizedAst' = none
    /\ UNCHANGED <<sql1, sql2, options, comparison, appVars>>

\* parseSQL throws: the error is returned
ParseFails(side) ==
    /\ At(side, "parse")
    /\ ~Falsy(parseSQL(Sql(side)).error)
    /\ Return(side, [normalized |-> JSNull, ast |-> none,
                     error |-> parseSQL(Sql(side)).error])

\* no error and no tree
ParseGivesNothing(side) ==
    /\ At(side, "parse")
    /\ Falsy(parseSQL(Sql(side)).error)
    /\ ~Truthy(parseSQL(Sql(side)).ast)
    /\ Return(side, ErrorResult(EmptyOrInvalid))

\* the tree is cloned
ParseSucceeds(side) ==
    /\ At(side, "parse")
    /\ Falsy(parseSQL(Sql(side)).error)
    /\ Truthy(parseSQL(Sql(side)).ast)
    /\ Continue(side, parseSQL(Sql(side)).ast, "resolveAliases")

ResolveAliases(side) ==
    /\ At(side, "resolveAliases")
    /\ ~ResolveThrows(normalizedAst, toggles)
    /\ Continue(side, StepResolveAliases(normalizedAst, toggles), "selectAliases")

ResolveAliasesThrows(side) ==
    /\ At(side, "resolveAliases")
    /\ ResolveThrows(normalizedAst, toggles)
    /\ Return(side, ErrorResult(NormalizationError(StageError(normalizedAst, toggles))))

SelectAliases(side) ==
    /\ At(side, "selectAliases")
    /\ Continue(side, StepSelectAliases(normalizedAst), "sortColumns")

SortColumns(side) ==
    /\ At(side, "sortColumns")
    /\ Continue(side, StepSortColumns(normalizedAst, toggles), "sortJoins")

SortJoins(side) ==
    /\ At(side, "sortJoins")
    /\ Continue(side, StepSortJoins(normalizedAst, toggles), "sortWhere")

SortWhere(side) ==
    /\ At(side, "sortWhere")
    /\ Continue(side, StepSortWhere(normalizedAst, toggles), "sortGroupBy")

SortGroupBy(side) ==
    /\ At(side, "sortGroupBy")
    /\ ~SortGroupByThrows(normalizedAst, toggles)
    /\ Continue(side, StepSortGroupBy(normalizedAst, toggles), "serialize")

SortGroupByFails(side) ==
    /\ At(side, "sortGroupBy")
    /\ SortGroupByThrows(normalizedAst, toggles)
    /\ Return(side, ErrorResult(NormalizationError(StageError(normalizedAst, toggles))))

\* astToSQL, prettifySQL and the return of normalizeQuery
Serialize(side) ==
    /\ At(side, "serialize")
    /\ Return(side, [normalized |-> Str(prettifySQL(astToSQL(normalizedAst))),
                     ast |-> normalizedAst, error |-> JSNull])

\* the verdict and the return of compareQueries
Compare ==
    /\ At(0, "compare")
    /\ comparison' = compareQueries(result1, result2)
    /\ pc' = [side |-> 0, at |-> "done"]
    /\ UNCHANGED <<sql1, sql2, options, normalizedAst, result1, result2, appVars>>

Done == pc.at = "done"

(***************************************************************************)
(* The two query texts of a run, as the trees the parser gives for them.   *)
(* Names are one character long (in one or two layers of quotes where the  *)
(* quoting matters); each family of trees varies one clause.  The first    *)
(* text is drawn from the families, the second is the first written        *)
(* another way, the first again, or a text that is not a query.            *)
(***************************************************************************)
MaxColumns == 3

MaxOperands == 3

MaxJoins == 2

AllOptions ==
    [resolveAliases : BOOLEAN, sortColumns : BOOLEAN, sortJoins : BOOLEAN,
     sortWhere : BOOLEAN, sortGroupBy : BOOLEAN]

\* options = {}: no toggle is given
DefaultOptions == [t \in {} |-> TRUE]

\* an options object that gives one toggle alone, as false, and one that
\* gives the other four, as false
PartialOptions ==
    { [t \in {only} |-> FALSE] : only \in DOMAIN Destructure(DefaultOptions) }
    \cup { [t \in DOMAIN Destructure(DefaultOptions) \ {omitted} |-> FALSE] :
              omitted \in DOMAIN Destructure(DefaultOptions) }

\* the options objects that give all five toggles, at most one as false
FewOptions ==
    { o \in AllOptions : \A t, u \in DOMAIN o : (~o[t] /\ ~o[u]) => t = u }

\* the options objects that give all five toggles, at most one as false or
\* at most one as true
SomeOptions ==
    FewOptions \cup { o \in AllOptions : \A t, u \in DOMAIN o : (o[t] /\ o[u]) => t = u }

NoGroupBy == GroupByArray(<<>>)

AND == <<"A","N","D">>

OR == <<"O","R">>

EQ == <<"=">>

INNER_JOIN == <<"I","N","N","E","R"," ","J","O","I","N">>

LEFT_JOIN == <<"L","E","F","T"," ","J","O","I","N">>

CROSS_JOIN == <<"C","R","O","S","S"," ","J","O","I","N">>

Table(t) == TableRef(t, <<>>, <<>>, none)

\* the lists of lo..hi different entries of the list E, in the order they
\* have in E
Combinations(E, lo, hi) ==
    UNION { { [i \in 1..n |-> E[f[i]]] :
                f \in {g \in [1..n -> 1..Len(E)] :
                          \A i, j \in 1..n : i < j => g[i] < g[j]} } : n \in lo..hi }

\* all lists with the same entries as l, in any order
Reorderings(l) ==
    { [i \in 1..Len(l) |-> l[p[i]]] :
        p \in {f \in [1..Len(l) -> 1..Len(l)] :
                  \A i, j \in 1..Len(l) : i # j => f[i] # f[j]} }

\* SELECT <columns> FROM a
SelectEntries ==
    << Column(ColumnRef(<<"a">>, <<"x">>), <<>>),
       Column(ColumnRef(<<"a">>, <<"x">>), <<"p">>),
       Column(ColumnRef(<<"a">>, <<"X">>), <<>>),
       Column(ColumnRef(<<>>, <<"y">>), <<>>),
       Column(Function(<<"f">>, <<ColumnRef(<<>>, <<"y">>)>>), <<>>) >>

SelectFamily ==
    { Select(c, <<Table(<<"a">>)>>, none, NoGroupBy, none, <<>>) :
        c \in Combinations(SelectEntries, 1, MaxColumns) }

\* SELECT x FROM a WHERE <predicate>
Operands ==
    << BinaryExpr(EQ, ColumnRef(<<>>, <<"x">>), Number(1)),
       BinaryExpr(EQ, ColumnRef(<<>>, <<"X">>), Number(1)),
       BinaryExpr(<<"<">>, ColumnRef(<<>>, <<"y">>), Number(2)),
       UnaryExpr(<<"N","O","T">>, ColumnRef(<<>>, <<"y">>)),
       Paren(BinaryExpr(OR, ColumnRef(<<>>, <<"z">>), ColumnRef(<<>>, <<"y">>))) >>

\* a AND (b AND c): the chain as the parser nests it to the right
RECURSIVE RightNested(_, _)
RightNested(l, op) ==
    IF Len(l) = 1 THEN l[1]
    ELSE BinaryExpr(op, Head(l),
                    IF Len(l) = 2 THEN l[2] ELSE Paren(RightNested(Tail(l), op)))

\* a AND b AND c: the chain as the parser nests it to the left
RECURSIVE LeftNested(_, _)
LeftNested(l, op) ==
    IF Len(l) = 1 THEN l[1]
    ELSE BinaryExpr(op, LeftNested(SubSeq(l, 1, Len(l) - 1), op), l[Len(l)])

Predicates ==
    { LeftNested(l, AND) : l \in Combinations(Operands, 1, MaxOperands) }
    \cup { LeftNested(l, OR) : l \in Combinations(SubSeq(Operands, 1, 4), 2, MaxOperands) }

WhereFamily ==
    { Select(<<Column(ColumnRef(<<>>, <<"x">>), <<>>)>>, <<Table(<<"a">>)>>, w, NoGroupBy,
             none, <<>>) : w \in Predicates }

\* SELECT a.x FROM a <joins>
JoinEntries ==
    << TableRef(<<"b">>, <<"c">>, INNER_JOIN,
                BinaryExpr(EQ, ColumnRef(<<"a">>, <<"x">>), ColumnRef(<<"c">>, <<"x">>))),
       TableRef(<<"b">>, <<"d">>, INNER_JOIN,
                BinaryExpr(EQ, ColumnRef(<<"a">>, <<"y">>), ColumnRef(<<"d">>, <<"y">>))),
       TableRef(<<"b">>, <<"c">>, LEFT_JOIN,
                BinaryExpr(EQ, ColumnRef(<<"a">>, <<"x">>), ColumnRef(<<"c">>, <<"x">>))),
       TableRef(<<"e">>, <<>>, CROSS_JOIN, none),
       TableRef(<<"E">>, <<"f">>, INNER_JOIN,
                BinaryExpr(AND,
                    BinaryExpr(EQ, ColumnRef(<<"f">>, <<"y">>), ColumnRef(<<"a">>, <<"y">>)),
                    BinaryExpr(EQ, ColumnRef(<<"a">>, <<"x">>), ColumnRef(<<"f">>, <<"x">>)))),
       TableRef(<<"g">>, <<>>, <<>>, none) >>

JoinFamily ==
    { Select(<<Column(ColumnRef(<<"a">>, <<"x">>), <<>>)>>, <<Table(<<"a">>)>> \o j, none,
             NoGroupBy, none, <<>>) : j \in Combinations(JoinEntries, 1, MaxJoins) }

\* SELECT <qualifier>.x, ... FROM <tables with aliases> WHERE <qualifier>.y = 1
AliasFroms ==
    { <<TableRef(<<"a">>, <<"e">>, <<>>, none)>>,
      <<TableRef(<<"A">>, <<"E">>, <<>>, none)>>,
      <<TableRef(<<"a">>, <<"e">>, <<>>, none), TableRef(<<"b">>, <<>>, INNER_JOIN, none)>>,
      <<TableRef(<<"a">>, <<"e">>, <<>>, none), TableRef(<<"b">>, <<"c">>, INNER_JOIN, none)>>,
      <<TableRef(<<"a">>, <<"b">>, <<>>, none), TableRef(<<"b">>, <<"c">>, INNER_JOIN, none)>>,
      <<TableRef(<<"b">>, <<"c">>, <<>>, none), TableRef(<<"a">>, <<"b">>, INNER_JOIN, none)>>,
      <<TableRef(<<"a">>, <<"c">>, <<>>, none), TableRef(<<"a">>, <<"d">>, INNER_JOIN, none)>> }

\* the name a FROM entry is referred to by
ExposedName(t) == IF t.as # <<>> THEN t.as ELSE t.table

AliasFamily ==
    { Select([i \in 1..Len(f) |-> Column(ColumnRef(ExposedName(f[i]), <<"x">>), <<>>)],
             f,
             BinaryExpr(EQ, ColumnRef(ExposedName(f[Len(f)]), <<"y">>), Number(1)),
             NoGroupBy, none,
             <<OrderBy(ColumnRef(ExposedName(f[1]), <<"y">>), <<"D","E","S","C">>)>>) :
        f \in AliasFroms }

\* unqualified column references at every position and depth
Nestings(c) ==
    { c,
      Function(<<"f">>, <<Number(1), c>>),
      AggrFunc(<<"S","U","M">>, c),
      BinaryExpr(<<"+">>, c, Number(1)),
      UnaryExpr(<<"N","O","T">>, c),
      BinaryExpr(<<"I","N">>, c, ExprList(<<c, Number(1)>>)),
      [type |-> "case",
       args |-> <<[type |-> "when", cond |-> c, result |-> c],
                  [type |-> "else", cond |-> none, result |-> c]>>] }

ImplicitFroms ==
    { <<Table(<<"a">>)>>,
      <<TableRef(<<"\"","A","\"">>, <<"e">>, <<>>, none)>>,
      <<Table(<<"a">>), TableRef(<<"b">>, <<>>, INNER_JOIN, none)>> }

ImplicitFamily ==
    { Select(<<Column(e, <<>>)>>, f, e, GroupByArray(<<e>>), e,
             <<OrderBy(e, <<"A","S","C">>)>>) :
        e \in Nestings(ColumnRef(<<>>, <<"y">>)), f \in ImplicitFroms }

\* SELECT x FROM a AS e HAVING y = 1 AND e.x = 1 ORDER BY <entries>: the
\* operands of HAVING and the entries of ORDER BY in every order, none of
\* them the order of the sort keys for all
OrderFamily ==
    { Select(<<Column(ColumnRef(<<>>, <<"x">>), <<>>)>>,
             <<TableRef(<<"a">>, <<"e">>, <<>>, none)>>, none, NoGroupBy,
             BinaryExpr(AND, BinaryExpr(EQ, ColumnRef(<<>>, <<"y">>), Number(1)),
                             BinaryExpr(EQ, ColumnRef(<<"e">>, <<"x">>), Number(1))),
             o) :
        o \in Reorderings(<<OrderBy(ColumnRef(<<>>, <<"y">>), <<"D","E","S","C">>),
                            OrderBy(ColumnRef(<<"e">>, <<"x">>), <<"A","S","C">>),
                            OrderBy(ColumnRef(<<"e">>, <<"y">>), <<"A","S","C">>)>>) }

\* SELECT x FROM <a AS o or a> WHERE x IN (SELECT <q>.x FROM <inner FROM>
\* WHERE <r>.y = o.y): inside the subquery, columns with no qualifier, with
\* an alias of the subquery, with the alias o of the enclosing query and with
\* the name a, which is a table outside and an alias inside
SubqueryFroms ==
    { <<TableRef(<<"b">>, <<"e">>, <<>>, none)>>,
      <<TableRef(<<"b">>, <<"e">>, <<>>, none),
        TableRef(<<"c">>, <<"a">>, INNER_JOIN, none)>> }

SubqueryFamily ==
    { Select(<<Column(ColumnRef(<<>>, <<"x">>), <<>>)>>, f,
             BinaryExpr(<<"I","N">>, ColumnRef(<<>>, <<"x">>),
                 ExprList(<<Subquery(
                     Select(<<Column(ColumnRef(q, <<"x">>), <<>>)>>, g,
                            BinaryExpr(EQ, ColumnRef(r, <<"y">>),
                                           ColumnRef(<<"o">>, <<"y">>)),
                            NoGroupBy, none, <<>>))>>)),
             NoGroupBy, none, <<>>) :
        f \in {<<TableRef(<<"a">>, <<"o">>, <<>>, none)>>, <<Table(<<"a">>)>>},
        g \in SubqueryFroms,
        q \in {<<>>, <<"e">>, <<"o">>},
        r \in {<<>>, <<"e">>, <<"o">>, <<"a">>} }

\* SELECT <a column, a star, then a star and a column in either order> FROM a
\* (the second text has them in every order), and SELECT * FROM a with
\* columns the marker of all columns
StarFamily ==
    { Select(c, <<Table(<<"a">>)>>, none, NoGroupBy, none, <<>>) :
        c \in { l \in Reorderings(<<Column(Star, <<>>),
                                    Column([type |-> "star", value |-> <<>>], <<>>),
                                    Column(ColumnRef(<<"a">>, <<"y">>), <<>>),
                                    Column(ColumnRef(<<"a">>, <<"x">>), <<>>)>>) :
                    l[1].expr.type # "star" /\ l[2].expr.type = "star" }
              \cup {AllColumns} }

\* SELECT x FROM a WHERE <l = r>, alone and in a chain with a comparison of
\* another operator; among the operands of = two columns whose names differ
\* by an underscore against a digit
EqualityFamily ==
    { Select(<<Column(ColumnRef(<<>>, <<"x">>), <<>>)>>, <<Table(<<"a">>)>>, w, NoGroupBy,
             none, <<>>) :
        w \in UNION { {BinaryExpr(EQ, lr[1], lr[2])} \cup
                      {BinaryExpr(AND, BinaryExpr(op, ColumnRef(<<>>, <<"y">>), Number(1)),
                                       BinaryExpr(EQ, lr[1], lr[2])) :
                          op \in {<<"!","=">>, <<"<",">">>, <<">","=">>}} :
                      lr \in { <<ColumnRef(<<>>, <<"x","_">>), ColumnRef(<<>>, <<"x","1">>)>>,
                               <<ColumnRef(<<>>, <<"x","1">>), ColumnRef(<<>>, <<"x","_">>)>>,
                               <<ColumnRef(<<>>, <<"y">>), Number(1)>>,
                               <<Number(1), ColumnRef(<<>>, <<"y">>)>> } } }

\* table names inside quote characters
QuotedFamily ==
    { Select(<<Column(ColumnRef(n, <<"x">>), <<>>)>>, <<Table(n)>>, none, NoGroupBy, none,
             <<>>) : n \in {<<"\"","a","\"">>, <<"'","a","'">>, <<"'","'","a","'","'">>} }

\* SELECT "p" FROM a and SELECT "p" AS q, y FROM a: a text inside double
\* quotes is a string to the parser of the default dialect
DoubleQuotedFamily ==
    { Select(c, <<Table(<<"a">>)>>, none, NoGroupBy, none, <<>>) :
        c \in { <<Column(DoubleQuoteString(<<"p">>), <<>>)>>,
                <<Column(DoubleQuoteString(<<"p">>), <<"q">>),
                  Column(ColumnRef(<<>>, <<"y">>), <<>>)>> } }

\* SELECT x FROM a WHERE x = '<text>': string literals with a run of spaces
\* and with a keyword in them
Literals ==
    { <<"p"," "," ","q">>, <<"p"," ","q">>, <<"p"," ","o","r"," ","q">>,
      <<"p"," ","O","R"," ","q">> }

LiteralFamily ==
    { Select(<<Column(ColumnRef(<<>>, <<"x">>), <<>>)>>, <<Table(<<"a">>)>>,
             BinaryExpr(EQ, ColumnRef(<<>>, <<"x">>), SingleQuoteString(l)), NoGroupBy,
             none, <<>>) : l \in Literals }

\* GROUP BY lists, in the array form and in the object form
GroupByFamily ==
    { Select(<<Column(AggrFunc(<<"S","U","M">>, ColumnRef(<<>>, <<"x">>)), <<"s">>)>>,
             <<Table(<<"a">>)>>, none, g, none, <<>>) :
        g \in { GroupByArray(<<ColumnRef(<<>>, <<"y">>), ColumnRef(<<>>, <<"x">>)>>),
                GroupByObject(<<ColumnRef(<<>>, <<"y">>), ColumnRef(<<>>, <<"x">>)>>) } }

\* a statement that is not a SELECT and that the serializer has no case for
OtherStatement ==
    [Select(<<>>, <<Table(<<"a">>)>>, none, NoGroupBy, none, <<>>) EXCEPT !.type = "unknown"]

\* the two queries of the README and of the sample buttons
SampleQuery1 ==
    Select(<<Column(ColumnRef(<<"o">>, <<"i","d">>), <<>>),
             Column(ColumnRef(<<"o">>, <<"a","m","o","u","n","t">>), <<"o","r","d","e","r","_",
               "a","m","o","u","n","t">>),
             Column(ColumnRef(<<"c">>, <<"n","a","m","e">>), <<>>)>>,
           <<TableRef(<<"o","r","d","e","r","s">>, <<"o">>, <<>>, none),
             TableRef(<<"c","u","s","t","o","m","e","r","s">>, <<"c">>, INNER_JOIN,
                      BinaryExpr(EQ, ColumnRef(<<"o">>, <<"c","u","s","t","o","m","e","r","_","i",
                        "d">>),
                                 ColumnRef(<<"c">>, <<"i","d">>)))>>,
           BinaryExpr(AND,
               BinaryExpr(EQ, ColumnRef(<<"o">>, <<"s","t","a","t","u",
                 "s">>), SingleQuoteString(<<"a","c","t","i","v","e">>)),
               BinaryExpr(EQ, ColumnRef(<<"c">>, <<"c","o","u","n","t","r",
                 "y">>), SingleQuoteString(<<"U","S">>))),
           NoGroupBy, none, <<>>)

SampleQuery2 ==
    Select(<<Column(ColumnRef(<<"o","r","d","e","r","s">>, <<"i","d">>), <<>>),
             Column(ColumnRef(<<"c","u","s","t","o","m","e","r","s">>, <<"n","a","m","e">>), <<>>),
             Column(ColumnRef(<<"o","r","d","e","r","s">>, <<"a","m","o","u","n","t">>), <<"o",
               "r","d","e","r","_","a","m","o","u","n","t">>)>>,
           <<TableRef(<<"o","r","d","e","r","s">>, <<>>, <<>>, none),
             TableRef(<<"c","u","s","t","o","m","e","r","s">>, <<>>, INNER_JOIN,
                      BinaryExpr(EQ, ColumnRef(<<"o","r","d","e","r","s">>, <<"c","u","s","t","o",
                        "m","e","r","_","i","d">>),
                                 ColumnRef(<<"c","u","s","t","o","m","e","r","s">>, <<"i",
                                   "d">>)))>>,
           BinaryExpr(AND,
               BinaryExpr(EQ, ColumnRef(<<"c","u","s","t","o","m","e","r","s">>, <<"c","o","u",
                 "n","t","r","y">>),
                          SingleQuoteString(<<"U","S">>)),
               BinaryExpr(EQ, ColumnRef(<<"o","r","d","e","r","s">>, <<"s","t","a","t","u","s">>),
                          SingleQuoteString(<<"a","c","t","i","v","e">>))),
           NoGroupBy, none, <<>>)

\* what the parser does on texts that are not queries
ParseErrors ==
    { ParseThrows(<<"E","x","p","e","c","t","e","d"," ","\"","S","E","L","E","C","T","\""," ","b",
      "u","t"," ","\"","S","\""," ","f","o","u","n","d",".">>),
      ParseThrows(<<"E","x","p","e","c","t","e","d"," ","\"","F","R","O","M","\""," ","b","u","t",
        " ","e","n","d"," ","o","f"," ","i","n","p","u","t"," ","f","o","u","n","d",".">>),
      ParseEmpty }

(***************************************************************************)
(* The same query written another way.                                     *)
(***************************************************************************)
EmptyNames == [q \in {} |-> <<>>]

\* the expression e with every column qualifier q in DOMAIN names replaced by
\* names[q] and, when unqualified is a name, every unqualified column given
\* that qualifier; subqueries have their own scope and are left alone
RECURSIVE WithQualifiers(_, _, _)
WithQualifiers(e, names, unqualified) ==
    LET W(x) == WithQualifiers(x, names, unqualified)
        WAll(l) == [i \in 1..Len(l) |-> W(l[i])]
    IN  CASE e.type = "column_ref" ->
                IF e.table = <<>>
                THEN [e EXCEPT !.table = unqualified]
                ELSE IF e.table \in DOMAIN names
                     THEN [e EXCEPT !.table = names[e.table]] ELSE e
          [] e.type = "binary_expr" -> [e EXCEPT !.left = W(@), !.right = W(@)]
          [] e.type = "unary_expr" -> [e EXCEPT !.expr = W(@)]
          [] e.type = "function" -> [e EXCEPT !.args.value = WAll(@)]
          [] e.type = "aggr_func" -> [e EXCEPT !.args.expr = W(@)]
          [] e.type = "expr_list" -> [e EXCEPT !.value = WAll(@)]
          [] e.type = "case" ->
                [e EXCEPT !.args = [i \in 1..Len(@) |->
                                      [@[i] EXCEPT !.cond = W(@), !.result = W(@)]]]
          [] OTHER -> e

\* the query t with the column qualifiers of all its clauses replaced
QueryWithQualifiers(t, names, unqualified) ==
    LET W(x) == WithQualifiers(x, names, unqualified)
    IN  [t EXCEPT
           !.columns = IF @ = AllColumns THEN @
                       ELSE [i \in 1..Len(@) |-> [@[i] EXCEPT !.expr = W(@)]],
           !.from = [i \in 1..Len(@) |-> [@[i] EXCEPT !.on = W(@)]],
           !.where = W(@),
           !.groupby = [@ EXCEPT !.columns = [i \in 1..Len(@) |-> W(@[i])]],
           !.having = W(@),
           !.orderby = [i \in 1..Len(@) |-> [@[i] EXCEPT !.expr = W(@)]]]

\* the column references of an expression, outside subqueries
RECURSIVE ColumnRefsIn(_)
ColumnRefsIn(e) ==
    LET All(l) == UNION {ColumnRefsIn(l[i]) : i \in 1..Len(l)}
    IN  CASE e.type = "column_ref" -> {e}
          [] e.type = "binary_expr" -> ColumnRefsIn(e.left) \cup ColumnRefsIn(e.right)
          [] e.type = "unary_expr" -> ColumnRefsIn(e.expr)
          [] e.type = "function" -> All(e.args.value)
          [] e.type = "aggr_func" -> ColumnRefsIn(e.args.expr)
          [] e.type = "expr_list" -> All(e.value)
          [] e.type = "case" ->
                UNION {ColumnRefsIn(e.args[i].cond) \cup ColumnRefsIn(e.args[i].result) :
                          i \in 1..Len(e.args)}
          [] OTHER -> {}

\* the column references of all the clauses of the query t
ColumnRefsOf(t) ==
    (IF t.columns = AllColumns THEN {}
     ELSE UNION {ColumnRefsIn(t.columns[i].expr) : i \in 1..Len(t.columns)})
    \cup UNION {ColumnRefsIn(t.from[i].on) : i \in 1..Len(t.from)}
    \cup ColumnRefsIn(t.where)
    \cup UNION {ColumnRefsIn(t.groupby.columns[i]) : i \in 1..Len(t.groupby.columns)}
    \cup ColumnRefsIn(t.having)
    \cup UNION {ColumnRefsIn(t.orderby[i].expr) : i \in 1..Len(t.orderby)}

\* every use of an alias as a qualifier replaced by the real table name, and
\* the alias declarations dropped from FROM
AliasSubstituted(t) ==
    LET aliased == {i \in 1..Len(t.from) : t.from[i].as # <<>>}
        names == [q \in {t.from[i].as : i \in aliased} |->
                    t.from[CHOOSE i \in aliased : t.from[i].as = q].table]
        s == QueryWithQualifiers(t, names, <<>>)
    IN  [s EXCEPT !.from = [i \in 1..Len(@) |-> [@[i] EXCEPT !.as = <<>>]]]

\* the single-table query t with every unqualified column qualified by the
\* name its table is referred to by
ExplicitlyQualified(t) ==
    IF Len(t.from) = 1
    THEN QueryWithQualifiers(t, EmptyNames, ExposedName(t.from[1])) ELSE t

\* an AND/OR chain with its operands in any order, nested to the left or to
\* the right, at every nesting level
RECURSIVE Rearrangements(_)
Rearrangements(e) ==
    IF e.type = "binary_expr" /\ e.operator \in {AND, OR}
    THEN LET operands == flattenConditions(e, e.operator)
             choices == { l \in [1..Len(operands) ->
                                    UNION {Rearrangements(operands[i]) :
                                              i \in 1..Len(operands)}] :
                             \A i \in 1..Len(operands) :
                                 l[i] \in Rearrangements(operands[i]) }
         IN  UNION { {LeftNested(l, e.operator), RightNested(l, e.operator)} :
                        l \in UNION {Reorderings(c) : c \in choices} }
    ELSE {e}

JoinTypes == {INNER_JOIN, LEFT_JOIN, CROSS_JOIN}

\* the query t with the join type of one FROM entry changed
JoinTypeChanges(t) ==
    { [t EXCEPT !.from[i].join = j] :
        i \in {k \in 2..Len(t.from) : t.from[k].join # <<>>}, j \in JoinTypes } \ {t}

\* the second text of a run: the first written another way
Rewritings(t) ==
    {t}
    \cup (IF t.columns = AllColumns THEN {}
          ELSE {[t EXCEPT !.columns = c] : c \in Reorderings(t.columns)})
    \cup {[t EXCEPT !.where = w] : w \in Rearrangements(t.where)}
    \cup {[t EXCEPT !.from = <<Head(t.from)>> \o j] : j \in Reorderings(Tail(t.from))}
    \cup UNION { {[t EXCEPT !.from[i].on = w] : w \in Rearrangements(t.from[i].on)} :
                    i \in 1..Len(t.from) }
    \cup JoinTypeChanges(t)
    \cup {AliasSubstituted(t), ExplicitlyQualified(t)}
    \cup (IF t = SampleQuery1 THEN {SampleQuery2} ELSE {})
    \cup (IF t \in LiteralFamily THEN LiteralFamily ELSE {})

Trees ==
    SelectFamily \cup WhereFamily \cup JoinFamily \cup AliasFamily \cup ImplicitFamily
    \cup QuotedFamily \cup GroupByFamily \cup OrderFamily \cup SubqueryFamily
    \cup StarFamily \cup EqualityFamily \cup DoubleQuotedFamily \cup LiteralFamily
    \cup {SampleQuery1}

\* one or two trees of each family, to run under every setting of the toggles
FewTrees ==
    { t \in Trees :
        \/ t \in SelectFamily /\ Len(t.columns) = 2 /\ t.columns[1].as # <<>>
        \/ t \in WhereFamily /\ t.where.type = "binary_expr" /\ t.where.operator = OR
             /\ t.where.left.type = "binary_expr" /\ t.where.left.operator = EQ
             /\ t.where.right.type = "unary_expr"
        \/ t \in JoinFamily /\ Len(t.from) = 3 /\ t.from[3].on.type = "binary_expr"
             /\ t.from[3].on.operator = AND /\ t.from[2].join = LEFT_JOIN
        \/ t \in AliasFamily /\ Len(t.from) = 2 /\ t.from[1].as = t.from[2].table
        \/ t \in ImplicitFamily /\ t.where.type = "aggr_func"
        \/ t \in OrderFamily /\ t.orderby[3].expr.table = <<>>
        \/ t \in SubqueryFamily /\ t.from[1].as # <<>>
             /\ t.where.right.value[1].ast.where.left.table = <<"a">>
             /\ t.where.right.value[1].ast.columns[1].expr.table = <<>>
             /\ Len(t.where.right.value[1].ast.from) = 2
        \/ t \in QuotedFamily \cup GroupByFamily }

NotQueries == ParseErrors \cup {Parses(OtherStatement)}

(***************************************************************************)
(* App.jsx: the state of the component and its handlers.  An editor holds  *)
(* a text; what the parser makes of a text under a dialect is given by a   *)
(* table for the texts considered.                                         *)
(***************************************************************************)
SAMPLE_QUERY_1 ==
    <<"S","E","L","E","C","T"," ","o",".","i","d",","," ","o",".","a","m","o","u","n","t"," ",
      "A","S"," ","o","r","d","e","r","_","a","m","o","u","n","t",","," ","c",".","n","a","m",
      "e","\n","F","R","O","M"," ","o","r","d","e","r","s"," ","o","\n","J","O","I","N"," ","c",
      "u","s","t","o","m","e","r","s"," ","c"," ","O","N"," ","o",".","c","u","s","t","o","m",
      "e","r","_","i","d"," ","="," ","c",".","i","d","\n","W","H","E","R","E"," ","o",".","s",
      "t","a","t","u","s"," ","="," ","'","a","c","t","i","v","e","'"," ","A","N","D"," ","c",
      ".","c","o","u","n","t","r","y"," ","="," ","'","U","S","'","\n","O","R","D","E","R"," ",
      "B","Y"," ","o",".","c","r","e","a","t","e","d","_","a","t"," ","D","E","S","C">>

SAMPLE_QUERY_2 ==
    <<"S","E","L","E","C","T"," ","o","r","d","e","r","s",".","i","d",","," ","c","u","s","t",
      "o","m","e","r","s",".","n","a","m","e",","," ","o","r","d","e","r","s",".","a","m","o",
      "u","n","t"," ","A","S"," ","o","r","d","e","r","_","a","m","o","u","n","t","\n","F","R",
      "O","M"," ","o","r","d","e","r","s","\n","J","O","I","N"," ","c","u","s","t","o","m","e",
      "r","s"," ","O","N"," ","o","r","d","e","r","s",".","c","u","s","t","o","m","e","r","_",
      "i","d"," ","="," ","c","u","s","t","o","m","e","r","s",".","i","d","\n","W","H","E","R",
      "E"," ","c","u","s","t","o","m","e","r","s",".","c","o","u","n","t","r","y"," ","="," ",
      "'","U","S","'"," ","A","N","D"," ","o","r","d","e","r","s",".","s","t","a","t","u","s",
      " ","="," ","'","a","c","t","i","v","e","'","\n","O","R","D","E","R"," ","B","Y"," ","o",
      "r","d","e","r","s",".","c","r","e","a","t","e","d","_","a","t"," ","D","E","S","C">>

\* SELECT x FROM a
PlainQuery == <<"S","E","L","E","C","T"," ","x"," ","F","R","O","M"," ","a">>

\* the same with the column name inside double quotes
QuotedQuery == <<"S","E","L","E","C","T"," ","\"","x","\""," ","F","R","O","M"," ","a">>

\* texts that a user types or pastes into an editor, the empty text and a
\* text of whitespace among them
EditorTexts == {<<>>, <<" ">>, PlainQuery, QuotedQuery}

\* two of the four dialects of the selector
Databases == {"mysql", "postgresql"}

CreatedAtDescending(t) ==
    <<OrderBy(ColumnRef(t, <<"c","r","e","a","t","e","d","_","a","t">>), <<"D","E","S","C">>)>>

EndOfInput ==
    <<"E","x","p","e","c","t","e","d"," ","\"","S","E","L","E","C","T","\""," ","b","u","t"," ",
      "e","n","d"," ","o","f"," ","i","n","p","u","t"," ","f","o","u","n","d",".">>

\* parser.astify(text, {database}): a text inside double quotes is a string
\* to the parsers of MySQL and MariaDB and a name to the other two
astify(text, db) ==
    CASE text = SAMPLE_QUERY_1 ->
            Parses([SampleQuery1 EXCEPT !.orderby = CreatedAtDescending(<<"o">>)])
      [] text = SAMPLE_QUERY_2 ->
            Parses([SampleQuery2 EXCEPT
                       !.orderby = CreatedAtDescending(<<"o","r","d","e","r","s">>)])
      [] text = PlainQuery ->
            Parses(Select(<<Column(ColumnRef(<<>>, <<"x">>), <<>>)>>, <<Table(<<"a">>)>>,
                          none, NoGroupBy, none, <<>>))
      [] text = QuotedQuery ->
            IF db \in {"mysql", "mariadb"}
            THEN Parses(Select(<<Column(DoubleQuoteString(<<"x">>), <<>>)>>,
                               <<Table(<<"a">>)>>, none, NoGroupBy, none, <<>>))
            ELSE Parses(Select(<<Column(ColumnRef(<<>>, <<"x">>), <<>>)>>,
                               <<Table(<<"a">>)>>, none, NoGroupBy, none, <<>>))
      [] OTHER -> ParseThrows(EndOfInput)

\* isEquivalent: null, or the verdict of the last comparison
NoVerdict == [isNull |-> TRUE, value |-> FALSE]

Verdict(b) == [isNull |-> FALSE, value |-> b]

\* the texts an editor can hold
AllTexts == EditorTexts \cup {SAMPLE_QUERY_1, SAMPLE_QUERY_2}

\* normalizeQuery(text, { database }) as a table, so that the canonical
\* text of a text under a dialect is computed once
normalizations ==
    [text \in AllTexts, db \in Databases |->
        normalizeQuery(astify(text, db), [d \in {"database"} |-> db])]

\* the verdict and the returned object, from the two results
compareResults(results) == compareQueries(results[1], results[2])

\* compareQueries(q1, q2, { database })
compareTexts(q1, q2, db) ==
    compareResults([side \in {1, 2} |-> normalizations[IF side = 1 THEN q1 ELSE q2, db]])

\* the value, or the empty text for null (x || empty)
OrEmpty(x) == IF Falsy(x) THEN <<>> ELSE x.value

\* the setters that handleCompare calls with the object returned
ShowResult(result) ==
    /\ normalized1' = OrEmpty(result.normalized1)
    /\ normalized2' = OrEmpty(result.normalized2)
    /\ error1' = result.error1
    /\ error2' = result.error2
    /\ isEquivalent' = Verdict(result.isEquivalent)
    /\ showOutput' = TRUE
    /\ UNCHANGED <<query1, query2, database, runVars>>

handleCompare == ShowResult(compareTexts(query1, query2, database))

\* the Compare button: disabled={!query1.trim() || !query2.trim()}
ClickCompare ==
    /\ trim(query1) # <<>>
    /\ trim(query2) # <<>>
    /\ handleCompare

\* the keydown listener of the window: Ctrl or Cmd with Enter
KeyDown == handleCompare

\* onChange of the first editor
setQuery1(text) ==
    /\ query1' = text
    /\ UNCHANGED <<query2, normalized1, normalized2, error1, error2, isEquivalent, database,
                   showOutput, runVars>>

\* onChange of the second editor
setQuery2(text) ==
    /\ query2' = text
    /\ UNCHANGED <<query1, normalized1, normalized2, error1, error2, isEquivalent, database,
                   showOutput, runVars>>

\* onChange of the dialect selector
setDatabase(db) ==
    /\ database' = db
    /\ UNCHANGED <<query1, query2, normalized1, normalized2, error1, error2, isEquivalent,
                   showOutput, runVars>>

loadSamples ==
    /\ query1' = SAMPLE_QUERY_1
    /\ query2' = SAMPLE_QUERY_2
    /\ showOutput' = FALSE
    /\ isEquivalent' = NoVerdict
    /\ UNCHANGED <<normalized1, normalized2, error1, error2, database, runVars>>

clearAll ==
    /\ query1' = <<>>
    /\ query2' = <<>>
    /\ normalized1' = <<>>
    /\ normalized2' = <<>>
    /\ error1' = JSNull
    /\ error2' = JSNull
    /\ isEquivalent' = NoVerdict
    /\ showOutput' = FALSE
    /\ UNCHANGED <<database, runVars>>

\* the button of the output section, rendered while the section is open and
\* has a text to show: setShowOutput(!showOutput)
ToggleOutput ==
    /\ showOutput
    /\ normalized1 # <<>> \/ normalized2 # <<>>
    /\ showOutput' = ~showOutput
    /\ UNCHANGED <<query1, query2, normalized1, normalized2, error1, error2, isEquivalent,
                   database, runVars>>

\* the useState initial values
AppMounted ==
    /\ query1 = <<>>
    /\ query2 = <<>>
    /\ normalized1 = <<>>
    /\ normalized2 = <<>>
    /\ error1 = JSNull
    /\ error2 = JSNull
    /\ isEquivalent = NoVerdict
    /\ database = "mysql"
    /\ showOutput = FALSE

\* no call of compareQueries is in progress between two events
RunIdle ==
    /\ sql1 = ParseEmpty
    /\ sql2 = ParseEmpty
    /\ options = DefaultOptions
    /\ pc = [side |-> 0, at |-> "done"]
    /\ normalizedAst = none
    /\ result1 = NoResult
    /\ result2 = NoResult
    /\ comparison = NoComparison

AppInit == AppMounted /\ RunIdle

AppNext ==
    \/ \E text \in EditorTexts : setQuery1(text)
    \/ \E text \in EditorTexts : setQuery2(text)
    \/ \E db \in Databases : setDatabase(db)
    \/ ClickCompare
    \/ KeyDown
    \/ loadSamples
    \/ clearAll
    \/ ToggleOutput

AppSpec == AppInit /\ [][AppNext]_vars

(***************************************************************************)
(* One run of compareQueries                                               *)
(***************************************************************************)
Init ==
    /\ \/ /\ sql1 \in {Parses(t) : t \in Trees}
          /\ sql2 \in {Parses(t) : t \in Rewritings(sql1.ast)}
          /\ options = DefaultOptions
       \/ /\ sql1 \in {Parses(t) : t \in FewTrees}
          /\ sql2 \in {Parses(t) : t \in Rewritings(sql1.ast)}
          /\ options \in SomeOptions \cup PartialOptions
       \/ /\ sql1 \in {Parses(t) : t \in FewTrees}
          /\ sql2 \in NotQueries
          /\ options \in FewOptions
       \/ /\ sql1 \in NotQueries
          /\ sql2 \in {Parses(t) : t \in FewTrees} \cup NotQueries
          /\ options = DefaultOptions
    /\ pc = [side |-> 1, at |-> "parse"]
    /\ normalizedAst = none
    /\ result1 = NoResult
    /\ result2 = NoResult
    /\ comparison = NoComparison
    /\ AppMounted

Next ==
    \/ \E side \in {1, 2} :
          \/ ParseFails(side)
          \/ ParseGivesNothing(side)
          \/ ParseSucceeds(side)
          \/ ResolveAliases(side)
          \/ ResolveAliasesThrows(side)
          \/ SelectAliases(side)
          \/ SortColumns(side)
          \/ SortJoins(side)
          \/ SortWhere(side)
          \/ SortGroupBy(side)
          \/ SortGroupByFails(side)
          \/ Serialize(side)
    \/ Compare

Spec == Init /\ [][Next]_vars

(***************************************************************************)
(* Properties of a run.                                                    *)
(***************************************************************************)
\* the result of normalizeQuery on the given side, once it has returned
Returned(side) == IF side = 1 THEN pc.side # 1 ELSE pc.side = 0

Result(side) == IF side = 1 THEN result1 ELSE result2

\* the text of the given side is a query and normalizeQuery has returned its
\* canonical tree
Normalized(side) == Returned(side) /\ Result(side).error.isNull

Sides == {1, 2}

\* C1: compareQueries normalizes both texts with the same options, and
\* isEquivalent is true exactly when neither result carries an error and
\* the two normalized texts are the same string.
C1_Verdict ==
    Done =>
        /\ result1 = normalizeQuery(sql1, options)
        /\ result2 = normalizeQuery(sql2, options)
        /\ comparison.isEquivalent =
              (/\ result1.error.isNull
               /\ result2.error.isNull
               /\ ~result1.normalized.isNull
               /\ ~result2.normalized.isNull
               /\ result1.normalized.value = result2.normalized.value)

\* two different texts are found equivalent, and two texts that both fail
\* are found not equivalent
C1_Witness ==
    /\ Done
    /\ \/ comparison.isEquivalent /\ sql1 # sql2
       \/ ~result1.error.isNull /\ ~result2.error.isNull

\* the other text of a run in which the text of the given side does not parse
Other(side) == IF side = 1 THEN sql2 ELSE sql1

C3_Idempotent ==
    \A side \in Sides :
        Normalized(side) => Canonicalize(Result(side).ast, toggles) = Result(side).ast

\* no two FROM entries are referred to by the same name
DistinctNames(t) ==
    \A i, j \in 1..Len(t.from) :
        i # j => toLowerCase(ExposedName(t.from[i])) # toLowerCase(ExposedName(t.from[j]))

HasAlias(t) == \E i \in 1..Len(t.from) : t.from[i].as # <<>>

\* C4: with resolveAliases on, a query that uses table aliases and the query
\* with every alias qualifier replaced by the real table name and the alias
\* declarations dropped have the same canonical form.
C4_AliasInvariance ==
    (/\ Done
     /\ toggles.resolveAliases
     /\ sql1.kind = "ast" /\ sql2.kind = "ast"
     /\ HasAlias(sql1.ast) /\ DistinctNames(sql1.ast)
     /\ sql2.ast = AliasSubstituted(sql1.ast)
     /\ result1.error.isNull /\ result2.error.isNull)
    => /\ result1.ast = result2.ast
       /\ comparison.isEquivalent

StarFree(t) ==
    /\ t.columns # AllColumns
    /\ \A i \in 1..Len(t.columns) : ~IsStarColumn(t.columns[i])

\* C5: with sortColumns on, a star-free select list has the same canonical
\* order for every permutation of its entries.
C5_SelectOrder ==
    (/\ Done
     /\ toggles.sortColumns
     /\ sql1.kind = "ast" /\ sql2.kind = "ast"
     /\ StarFree(sql1.ast)
     /\ sql2.ast.columns \in Reorderings(sql1.ast.columns)
     /\ sql2.ast = [sql1.ast EXCEPT !.columns = sql2.ast.columns]
     /\ result1.error.isNull /\ result2.error.isNull)
    => /\ result1.ast.columns = result2.ast.columns
       /\ comparison.isEquivalent

IsChain(e) == e.type = "binary_expr" /\ toUpperCase(e.operator) \in {AND, OR}

\* C6: with sortWhere on, a chain of AND (or of OR) has the same canonical
\* predicate tree for every permutation of its operands and every nesting.
C6_WhereOrder ==
    (/\ Done
     /\ toggles.sortWhere
     /\ sql1.kind = "ast" /\ sql2.kind = "ast"
     /\ IsChain(sql1.ast.where)
     /\ sql2.ast.where \in Rearrangements(sql1.ast.where)
     /\ sql2.ast = [sql1.ast EXCEPT !.where = sql2.ast.where]
     /\ result1.error.isNull /\ result2.error.isNull)
    => /\ result1.ast.where = result2.ast.where
       /\ comparison.isEquivalent

\* the ON predicates of the two FROM lists are rearrangements of each other,
\* entry by entry
SameJoinsRearranged(f, g) ==
    /\ Len(f) = Len(g)
    /\ \A i \in 1..Len(f) :
          /\ g[i].on \in Rearrangements(f[i].on)
          /\ g[i] = [f[i] EXCEPT !.on = g[i].on]

\* C7: with sortJoins on, the first FROM entry stays first, the other
\* entries have the same canonical order for every order they are written
\* in, and the ON predicate of every join is canonicalized as a WHERE
\* predicate is.
C7_JoinOrder ==
    (/\ Done
     /\ toggles.sortJoins
     /\ sql1.kind = "ast" /\ sql2.kind = "ast"
     /\ Len(sql1.ast.from) > 1
     /\ \E f \in Reorderings(Tail(sql1.ast.from)) :
           SameJoinsRearranged(<<Head(sql1.ast.from)>> \o f, sql2.ast.from)
     /\ sql2.ast = [sql1.ast EXCEPT !.from = sql2.ast.from]
     /\ result1.error.isNull /\ result2.error.isNull)
    => /\ result1.ast.from = result2.ast.from
       /\ result1.ast.from[1].table = normalizeTableName(sql1.ast.from[1].table)
       /\ \A i \in 2..Len(result1.ast.from) :
             result1.ast.from[i].on = sortWhereConditions(result1.ast.from[i].on)
       /\ comparison.isEquivalent

\* how many FROM entries of the tree have each join type
JoinTypeCounts(t) ==
    [j \in {t.from[i].join : i \in 1..Len(t.from)} |->
        Cardinality({i \in 1..Len(t.from) : t.from[i].join = j})]

\* C8: the join type is kept: no stage changes, drops or merges the join
\* type of a FROM entry, and two queries that differ only in the join type
\* of one FROM entry have different canonical forms.
C8_JoinTypeKept ==
    /\ \A side \in Sides :
          /\ (pc.side = side /\ pc.at # "parse")
                => JoinTypeCounts(normalizedAst) = JoinTypeCounts(Sql(side).ast)
          /\ Normalized(side)
                => JoinTypeCounts(Result(side).ast) = JoinTypeCounts(Sql(side).ast)
    /\ (/\ Done
        /\ sql1.kind = "ast" /\ sql2.kind = "ast"
        /\ sql2.ast \in JoinTypeChanges(sql1.ast)
        /\ result1.error.isNull /\ result2.error.isNull)
       => /\ result1.ast # result2.ast
          /\ result1.normalized # result2.normalized
          /\ ~comparison.isEquivalent

C8_Witness ==
    /\ Done
    /\ toggles.sortJoins
    /\ sql1.kind = "ast" /\ sql2.kind = "ast"
    /\ sql2.ast \in JoinTypeChanges(sql1.ast)
    /\ Len(sql1.ast.from) = 3
    /\ ~comparison.isEquivalent
    /\ ~comparison.normalized1.isNull /\ ~comparison.normalized2.isNull

Unqualified(t) == {c \in ColumnRefsOf(t) : c.table = <<>>}

\* C9: with resolveAliases on and exactly one FROM entry, every unqualified
\* column reference anywhere in the query is qualified with the canonical
\* name of that table, so that the query and the query with the qualifiers
\* written out have the same canonical form; with more than one FROM entry
\* the unqualified references are left as they are.
C9_ImplicitQualification ==
    /\ \A side \in Sides :
          (Normalized(side) /\ toggles.resolveAliases)
          => IF Len(Sql(side).ast.from) = 1
             THEN \A c \in ColumnRefsOf(Result(side).ast) :
                     c.table = normalizeTableName(Sql(side).ast.from[1].table)
             ELSE Unqualified(Result(side).ast) = Unqualified(Sql(side).ast)
    /\ (/\ Done
        /\ toggles.resolveAliases
        /\ sql1.kind = "ast" /\ sql2.kind = "ast"
        /\ Len(sql1.ast.from) = 1
        /\ sql2.ast = ExplicitlyQualified(sql1.ast)
        /\ result1.error.isNull /\ result2.error.isNull)
       => result1.ast = result2.ast /\ comparison.isEquivalent

NormalizationErrorPrefix == <<"N","o","r","m","a","l","i","z","a","t","i","o","n"," ","e","r","r",
    "o","r",":"," ">>

StartsWith(s, prefix) == Len(s) >= Len(prefix) /\ SubSeq(s, 1, Len(prefix)) = prefix

\* C10: every way out of normalizeQuery is a returned result.  A text that
\* does not parse gives a result with normalized null, ast null and the
\* message of the parser, unchanged, as error; an exception in a stage gives
\* a result with normalized null whose error starts with the words
\* Normalization error, which the error of no parse failure does; of error
\* and normalized, exactly one is not null in every result.
C10_FailurePolicy ==
    /\ \A side \in Sides :
          Returned(side) =>
             /\ Result(side).error.isNull # Result(side).normalized.isNull
             /\ Sql(side).kind = "throw"
                   => Result(side) = [normalized |-> JSNull, ast |-> none,
                                      error |-> Str(Sql(side).message)]
             /\ (Sql(side).kind = "ast" /\ StageError(Sql(side).ast, toggles) # <<>>)
                   => /\ Result(side).normalized.isNull
                      /\ Result(side).ast = none
                      /\ StartsWith(Result(side).error.value, NormalizationErrorPrefix)
             /\ StartsWith(Result(side).error.value, NormalizationErrorPrefix)
                   => Sql(side).kind = "ast" /\ StageError(Sql(side).ast, toggles) # <<>>

\* one text does not parse and a stage throws on the other
C10_Witness ==
    /\ Done
    /\ sql1.kind = "throw"
    /\ result1.error = Str(sql1.message)
    /\ sql2.kind = "ast"
    /\ StartsWith(result2.error.value, NormalizationErrorPrefix)

\* the tree of the given side after alias resolution and the implicit select
\* alias pass, before any sort
Resolved(side) == StepSelectAliases(StepResolveAliases(Sql(side).ast, toggles))

\* the names and aliases of the FROM entries of the tree
TableNames(t) == {<<t.from[i].table, t.from[i].as>> : i \in 1..Len(t.from)}

\* the toggle as the options object gives it, true when it does not
Given(t) == IF t \in DOMAIN options THEN options[t] ELSE TRUE

WithoutQualifiers(e) ==
    WithQualifiers(e, [q \in {c.table : c \in ColumnRefsIn(e)} |-> <<>>], <<>>)

\* C12: under every setting of the toggles the ORDER BY list of the result
\* has the length, the entry order and the sort directions of the input, and
\* HAVING has its operands in the order of the input: alias resolution
\* rewrites the qualifiers of their column references and nothing else
\* changes them.
C12_OrderByKept ==
    \A side \in Sides :
        Normalized(side) =>
            /\ Len(Result(side).ast.orderby) = Len(Sql(side).ast.orderby)
            /\ \A i \in 1..Len(Sql(side).ast.orderby) :
                  /\ Result(side).ast.orderby[i].type = Sql(side).ast.orderby[i].type
                  /\ WithoutQualifiers(Result(side).ast.orderby[i].expr)
                        = WithoutQualifiers(Sql(side).ast.orderby[i].expr)
            /\ WithoutQualifiers(Result(side).ast.having)
                  = WithoutQualifiers(Sql(side).ast.having)
            /\ Result(side).ast.orderby = StepResolveAliases(Sql(side).ast, toggles).orderby
            /\ Result(side).ast.having = StepResolveAliases(Sql(side).ast, toggles).having
            /\ ~toggles.resolveAliases
                  => /\ Result(side).ast.orderby = Sql(side).ast.orderby
                     /\ Result(side).ast.having = Sql(side).ast.having

\* a result with three ORDER BY entries and two HAVING operands that are not
\* in the order of their sort keys, with qualifiers rewritten
C12_Witness ==
    /\ Done
    /\ result1.error.isNull
    /\ toggles = Destructure(DefaultOptions)
    /\ Len(result1.ast.orderby) = 3
    /\ result1.ast.orderby # sql1.ast.orderby
    /\ ArraySort(result1.ast.orderby, LAMBDA o : generateSortKey(o.expr))
          # result1.ast.orderby
    /\ sortWhereConditions(result1.ast.having) # result1.ast.having

\* the name is lower case and has no quote character around it
IsCanonicalName(s) ==
    /\ s = toLowerCase(s)
    /\ s # <<>> => ~IsQuote(Head(s)) /\ ~IsQuote(s[Len(s)])

\* the alias map that Step 1 has built for the tree of the given side
AliasMapOf(side) == buildAliasMap(Sql(side).ast)

\* C13: the map that buildAliasMap returns for a FROM list has canonical
\* names (lower case, no quotes around them) as keys and as values, maps
\* every named table of FROM to itself and every declared alias to the
\* canonical name of the table it is declared on, whatever the order of the
\* FROM entries and also when an alias is the name of another table of the
\* same FROM, and has no other entry.
C13_AliasMap ==
    \A side \in Sides :
        (pc = [side |-> side, at |-> "selectAliases"] /\ toggles.resolveAliases) =>
            LET from == Sql(side).ast.from
                named == {i \in 1..Len(from) : from[i].table # <<>>}
                aliased == {i \in named : from[i].as # <<>>}
            IN  /\ \A k \in DOMAIN AliasMapOf(side) :
                      IsCanonicalName(k) /\ IsCanonicalName(AliasMapOf(side)[k])
                /\ \A i \in named :
                      /\ normalizeTableName(from[i].table) \in DOMAIN AliasMapOf(side)
                      /\ AliasMapOf(side)[normalizeTableName(from[i].table)]
                            = normalizeTableName(from[i].table)
                /\ \A i \in aliased :
                      /\ normalizeTableName(from[i].as) \in DOMAIN AliasMapOf(side)
                      /\ AliasMapOf(side)[normalizeTableName(from[i].as)]
                            = normalizeTableName(from[i].table)
                /\ DOMAIN AliasMapOf(side)
                      = {normalizeTableName(from[i].table) : i \in named}
                        \cup {normalizeTableName(from[i].as) : i \in aliased}

\* the qualifiers of the tree that are keys of the map once lowercased and
\* unquoted, each with the name the map gives for it
Lookups(t, aliasMap) ==
    [q \in {c.table : c \in {d \in ColumnRefsOf(t) :
                                  /\ d.table # <<>>
                                  /\ normalizeTableName(d.table) \in DOMAIN aliasMap}} |->
        aliasMap[normalizeTableName(q)]]

\* C14: after resolveAstAliases(q, buildAliasMap(q)) every column reference
\* of every clause, at every depth (operands of binary and of unary nodes,
\* function arguments, CASE branches, value lists), has the name the map
\* gives for its qualifier when the lowercased, unquoted qualifier is a key,
\* and the qualifier it had when it is not; no column reference keeps an
\* alias that FROM declares, and every FROM entry has its name in canonical
\* form and no alias.  (Queries in which every column reference has a
\* qualifier.)
C14_Resolved ==
    \A side \in Sides :
        (/\ pc = [side |-> side, at |-> "selectAliases"]
         /\ toggles.resolveAliases
         /\ Unqualified(Sql(side).ast) = {}
         /\ Sql(side).ast \notin SubqueryFamily) =>
            /\ normalizedAst =
                  [QueryWithQualifiers(Sql(side).ast,
                                       Lookups(Sql(side).ast, AliasMapOf(side)), <<>>)
                     EXCEPT !.from = [i \in 1..Len(@) |->
                                        [@[i] EXCEPT !.table = normalizeTableName(@),
                                                     !.as = <<>>]]]
            /\ \A c \in ColumnRefsOf(normalizedAst) :
                  \A i \in 1..Len(Sql(side).ast.from) :
                     \/ Sql(side).ast.from[i].as = <<>>
                     \/ normalizeTableName(c.table) # toLowerCase(Sql(side).ast.from[i].as)
                     \/ \E j \in 1..Len(Sql(side).ast.from) :
                           c.table = normalizeTableName(Sql(side).ast.from[j].table)
            /\ \A i \in 1..Len(normalizedAst.from) :
                  /\ normalizedAst.from[i].as = <<>>
                  /\ IsCanonicalName(normalizedAst.from[i].table)

\* the subqueries of an expression, from left to right
RECURSIVE SubqueriesIn(_)
SubqueriesIn(e) ==
    LET All(l) == [i \in 1..Len(l) |-> SubqueriesIn(l[i])]
        Flat(l) == IF Len(l) = 0 THEN <<>>
                   ELSE IF Len(l) = 1 THEN l[1] ELSE l[1] \o l[2]
    IN  CASE e.type = "subquery" -> <<e.ast>>
          [] e.type = "binary_expr" -> SubqueriesIn(e.left) \o SubqueriesIn(e.right)
          [] e.type = "unary_expr" -> SubqueriesIn(e.expr)
          [] e.type = "expr_list" -> Flat(All(e.value))
          [] OTHER -> <<>>

\* the names the FROM of the query q declares, each with the table it is for
Declared(q) ==
    [n \in ({q.from[i].as : i \in 1..Len(q.from)} \cup
            {q.from[i].table : i \in 1..Len(q.from)}) \ {<<>>} |->
        q.from[CHOOSE i \in 1..Len(q.from) : n \in {q.from[i].as, q.from[i].table}].table]

\* the subquery q resolved in its own scope and in no other
ResolvedInOwnScope(q) ==
    [QueryWithQualifiers(q, Declared(q),
                         IF Len(q.from) = 1 THEN q.from[1].table ELSE <<>>)
       EXCEPT !.from = [i \in 1..Len(@) |-> [@[i] EXCEPT !.as = <<>>]]]

RECURSIVE ExpressionsIn(_)
ExpressionsIn(e) ==
    LET All(l) == UNION {ExpressionsIn(l[i]) : i \in 1..Len(l)}
    IN  {e} \cup
        CASE e.type = "binary_expr" -> ExpressionsIn(e.left) \cup ExpressionsIn(e.right)
          [] e.type = "unary_expr" -> ExpressionsIn(e.expr)
          [] e.type = "function" -> All(e.args.value)
          [] e.type = "aggr_func" -> ExpressionsIn(e.args.expr)
          [] e.type = "expr_list" -> All(e.value)
          [] e.type = "case" ->
                UNION {ExpressionsIn(e.args[i].cond) \cup ExpressionsIn(e.args[i].result) :
                          i \in 1..Len(e.args)}
          [] OTHER -> {}

\* the expressions of all the clauses of the query t
ExpressionsOf(t) ==
    (IF t.columns = AllColumns THEN {}
     ELSE UNION {ExpressionsIn(t.columns[i].expr) : i \in 1..Len(t.columns)})
    \cup UNION {ExpressionsIn(t.from[i].on) : i \in 1..Len(t.from)}
    \cup ExpressionsIn(t.where)
    \cup UNION {ExpressionsIn(t.groupby.columns[i]) : i \in 1..Len(t.groupby.columns)}
    \cup ExpressionsIn(t.having)
    \cup UNION {ExpressionsIn(t.orderby[i].expr) : i \in 1..Len(t.orderby)}

\* the key by the table of the key shapes: a literal gives its value as a
\* string in lower case, a string literal inside double quotes
KeyByShape(e) ==
    CASE ~Truthy(e) -> <<>>
      [] e.type = "number" -> toLowerCase(String(e.value))
      [] e.type \in {"single_quote_string", "string"} ->
            <<"\"">> \o toLowerCase(e.value) \o <<"\"">>
      [] e.type = "column_ref" -> toLowerCase(e.table \o <<".">> \o e.column)
      [] e.type = "binary_expr" ->
            generateSortKey(e.left) \o <<"|">> \o e.operator \o <<"|">>
            \o generateSortKey(e.right)
      [] e.type = "function" ->
            toLowerCase(<<"f","n",":">> \o e.name \o <<"(">> \o JSONStringify(e.args)
                        \o <<")">>)
      [] e.type = "aggr_func" ->
            toLowerCase(<<"f","n",":">> \o e.name \o <<"(">>
                        \o <<"{","\"","e","x","p","r","\"",":">>
                        \o JSONStringify(e.args.expr) \o <<"}">> \o <<")">>)
      [] e.type = "star" -> <<"*">>
      [] OTHER -> toLowerCase(JSONStringify(e))

\* C16: for every expression of the two queries generateSortKey gives the
\* key of the table of shapes: the empty string for an absent node, for a
\* literal its value as a string in lower case (a string literal inside
\* double quotes), for a column reference qualifier.column in lower case,
\* for a binary expression key(left)|operator|key(right), for a function or
\* aggregate call fn:name(serialized arguments) in lower case, * for a star
\* and the serialization of the node in lower case otherwise.
C16_SortKey ==
    \A side \in Sides :
        (Sql(side).kind = "ast" /\ Sql(side).ast.type = "select") =>
            \A e \in ExpressionsOf(Sql(side).ast) \cup {none} :
                generateSortKey(e) = KeyByShape(e)

\* the select list that Step 2 of the given side is given
ColumnsToSort(side) ==
    StepSelectAliases(StepResolveAliases(Sql(side).ast, toggles)).columns

\* the entries of the list l that are not stars and whose key is the key of c
WithKeyOf(l, c) ==
    LET SameKey(d) == ~IsStarColumn(d) /\ localeCompare(ColumnKey(d), ColumnKey(c)) = 0
    IN  SelectSeq(l, SameKey)

\* C17: the list sortSelectColumns returns has the entries of the list it is
\* given: the star entries first, in the order they had, then the other
\* entries in ascending order of generateSortKey of their expression, the
\* entries with equal keys in the order they had; the marker of all columns
\* is returned as it is.
C17_StarsFirst ==
    \A side \in Sides :
        (pc = [side |-> side, at |-> "sortJoins"] /\ toggles.sortColumns) =>
            LET given == ColumnsToSort(side)
                sorted == normalizedAst.columns
            IN  IF given = AllColumns THEN sorted = AllColumns
                ELSE /\ Len(sorted) = Len(given)
                     /\ SelectSeq(sorted, IsStarColumn) = SelectSeq(given, IsStarColumn)
                     /\ \A i, j \in 1..Len(sorted) :
                           i < j =>
                              /\ IsStarColumn(sorted[j]) => IsStarColumn(sorted[i])
                              /\ ~IsStarColumn(sorted[i]) =>
                                    localeCompare(ColumnKey(sorted[i]),
                                                  ColumnKey(sorted[j])) <= 0
                     /\ \A i \in 1..Len(given) :
                           WithKeyOf(sorted, given[i]) = WithKeyOf(given, given[i])

\* a list with a star after a column, and columns that are not in the order
\* of their keys, has been sorted
C17_Witness ==
    /\ pc = [side |-> 1, at |-> "sortJoins"]
    /\ toggles.sortColumns
    /\ Len(ColumnsToSort(1)) = 4
    /\ ~IsStarColumn(ColumnsToSort(1)[1])
    /\ IsStarColumn(ColumnsToSort(1)[2])
    /\ IsStarColumn(ColumnsToSort(1)[4])
    /\ ColumnsToSort(1)[2] # ColumnsToSort(1)[4]
    /\ normalizedAst.columns = <<ColumnsToSort(1)[2], ColumnsToSort(1)[4],
                                 ColumnsToSort(1)[3], ColumnsToSort(1)[1]>>

\* the FROM list that Step 3 of the given side is given
FromToSort(side) == StepResolveAliases(Sql(side).ast, toggles).from

\* C18: the list sortJoinClauses returns has the entries of the FROM list it
\* is given: the first entry first and as it was, the other entries in
\* ascending order of the key join type.table name in lower case, each with
\* the ON predicate that sortWhereConditions gives for the one it had.
C18_JoinsSorted ==
    \A side \in Sides :
        (pc = [side |-> side, at |-> "sortWhere"] /\ toggles.sortJoins) =>
            LET given == FromToSort(side)
                sorted == normalizedAst.from
                n == Len(given)
                expected == [i \in 1..n |-> [given[i] EXCEPT !.on = sortWhereConditions(@)]]
            IN  /\ Len(sorted) = n
                /\ sorted[1] = given[1]
                /\ \A i \in 2..n :
                      Cardinality({j \in 2..n : sorted[j] = sorted[i]})
                         = Cardinality({j \in 2..n : expected[j] = sorted[i]})
                /\ \A i, j \in 2..n :
                      i < j =>
                         localeCompare(
                            toLowerCase(sorted[i].join \o <<".">> \o sorted[i].table),
                            toLowerCase(sorted[j].join \o <<".">> \o sorted[j].table)) <= 0

\* two joins that are not in the order of their keys have changed places,
\* and the ON predicate of one of them has been put in order
C18_Witness ==
    /\ pc = [side |-> 1, at |-> "sortWhere"]
    /\ toggles.sortJoins
    /\ Len(FromToSort(1)) = 3
    /\ normalizedAst.from[1] = FromToSort(1)[1]
    /\ normalizedAst.from[3] = FromToSort(1)[2]
    /\ normalizedAst.from[2].table = FromToSort(1)[3].table
    /\ normalizedAst.from[2].on # FromToSort(1)[3].on
    /\ normalizedAst.from[2].on = sortWhereConditions(FromToSort(1)[3].on)
    /\ JoinKey(FromToSort(1)[2]) # JoinKey(FromToSort(1)[3])

\* the WHERE predicate that Step 4 of the given side is given
WhereToSort(side) == StepResolveAliases(Sql(side).ast, toggles).where

\* e is a node of a chain of the operator op
IsChainOf(e, op) == e.type = "binary_expr" /\ toUpperCase(e.operator) = op

\* the operands of the chain of op at e: the maximal run of nodes of op
\* below e, however they are nested, read from left to right
RECURSIVE ChainOperands(_, _)
ChainOperands(e, op) ==
    IF IsChainOf(e, op) THEN ChainOperands(e.left, op) \o ChainOperands(e.right, op)
    ELSE <<e>>

\* the operands of a right-associated chain of op: the left children down
\* the right children, then the last right child
RECURSIVE RightSpine(_, _)
RightSpine(e, op) ==
    IF IsChainOf(e, op) THEN <<e.left>> \o RightSpine(e.right, op) ELSE <<e>>

\* how many times x is in the list l
Occurrences(l, x) == Cardinality({i \in 1..Len(l) : l[i] = x})

\* sorted is the chain given put in order: a right-associated chain of the
\* same operator whose operands are those of given, each in canonical form,
\* none of them a node of the chain, with keys that never decrease from
\* left to right in the order of localeCompare; the same for the chains
\* among the operands
RECURSIVE SortedChain(_, _)
SortedChain(given, sorted) ==
    LET op == toUpperCase(given.operator)
        before == ChainOperands(given, op)
        after == RightSpine(sorted, op)
        n == Len(before)
        canonical == [i \in 1..n |-> sortWhereConditions(before[i])]
    IN  /\ IsChainOf(sorted, op)
        /\ Len(after) = n
        /\ \A i \in 1..n : ~IsChainOf(after[i], op)
        /\ \A i, j \in 1..n :
              i < j => localeCompare(generateSortKey(after[i]),
                                     generateSortKey(after[j])) <= 0
        /\ \A i \in 1..n : Occurrences(after, after[i]) = Occurrences(canonical, after[i])
        /\ \A i \in 1..n : IsChain(before[i]) => SortedChain(before[i], canonical[i])

\* C19: sortWhereConditions on an AND node or an OR node gives a
\* right-associated chain of the same operator: its operands are the
\* operands of the maximal run of nodes of that operator in the input,
\* however nested, each in canonical form; every left child of a node of the
\* rebuilt chain is an operand and not a node of the chain; and the keys of
\* the operands never decrease from left to right, in the order of the
\* comparator of the sort.
C19_ChainSorted ==
    \A side \in Sides :
        (/\ pc = [side |-> side, at |-> "sortGroupBy"]
         /\ toggles.sortWhere
         /\ IsChain(WhereToSort(side))) =>
            SortedChain(WhereToSort(side), normalizedAst.where)

\* a chain of three operands nested to the left, one of them a chain of the
\* other operator, none in the place its key gives it, has been rebuilt
C19_Witness ==
    /\ pc = [side |-> 1, at |-> "sortGroupBy"]
    /\ toggles.sortWhere
    /\ IsChainOf(WhereToSort(1), AND)
    /\ IsChainOf(WhereToSort(1).left, AND)
    /\ Len(ChainOperands(WhereToSort(1), AND)) = 3
    /\ \E i \in 1..3 : IsChainOf(ChainOperands(WhereToSort(1), AND)[i], OR)
    /\ \A i \in 1..3 :
          RightSpine(normalizedAst.where, AND)[i] # ChainOperands(WhereToSort(1), AND)[i]
    /\ ~IsChainOf(normalizedAst.where.left, AND)
    /\ IsChainOf(normalizedAst.where.right, AND)

\* the predicate e when it is not a chain, and the operands of the chains
\* at e otherwise, at every level of nesting of chains
RECURSIVE Comparisons(_)
Comparisons(e) ==
    IF ~Truthy(e) THEN {}
    ELSE IF IsChain(e) THEN Comparisons(e.left) \cup Comparisons(e.right)
    ELSE {e}

\* C20: after sortWhereConditions every = comparison that is the root of
\* the predicate or an operand of an AND or OR chain has the key of its left
\* operand not after the key of its right operand, in the order that the
\* chains are sorted by (localeCompare), and it is the comparison given or
\* the one given with its operands exchanged; a comparison of any other
\* operator is as it was given.
C20_SwapOnlyEquals ==
    \A side \in Sides :
        (/\ pc = [side |-> side, at |-> "sortGroupBy"]
         /\ toggles.sortWhere) =>
            /\ \A c \in Comparisons(normalizedAst.where) :
                  (c.type = "binary_expr" /\ c.operator = EQ) =>
                     localeCompare(generateSortKey(c.left), generateSortKey(c.right)) <= 0
            /\ \A c \in Comparisons(WhereToSort(side)) :
                  c.type = "binary_expr" =>
                     IF c.operator = EQ
                     THEN \/ c \in Comparisons(normalizedAst.where)
                          \/ [c EXCEPT !.left = c.right, !.right = c.left]
                                \in Comparisons(normalizedAst.where)
                     ELSE c \in Comparisons(normalizedAst.where)

(***************************************************************************)
(* Clone-then-transform                                                    *)
(***************************************************************************)
\* resolveAstAliases returns nothing: it writes the resolved names into the
\* tree passed to it (expr.table = ..., table.table = ..., delete table.as).
\* This is that tree once the call has returned.
ArgumentAfterResolveAstAliases(ast) == resolveAstAliases(ast, buildAliasMap(ast))

\* sortJoinClauses: if (!from || from.length <= 1) return from; the array
\* returned is the array passed, before any clone is made
sortJoinClausesReturnsItsArgument(from) == Len(from) <= 1

\* C21: every transformation stage leaves the tree passed to it as it was
\* and returns a tree that is not the tree passed to it, FROM lists of
\* length 0 or 1 included: once Step 1 has run with resolveAliases on, the
\* tree passed to resolveAstAliases is as it was before the call, and once
\* Step 3 has run with sortJoins on, the list sortJoinClauses returned is
\* not the list passed to it.
C21_CloneThenTransform ==
    \A side \in Sides :
        /\ (/\ pc = [side |-> side, at |-> "selectAliases"]
            /\ toggles.resolveAliases) =>
               ArgumentAfterResolveAstAliases(Sql(side).ast) = Sql(side).ast
        /\ (/\ pc = [side |-> side, at |-> "sortWhere"]
            /\ toggles.sortJoins) =>
               ~sortJoinClausesReturnsItsArgument(FromToSort(side))

(***************************************************************************)
(* The implicit select-alias pass                                          *)
(***************************************************************************)
\* the select list that the implicit step is given
SelectListToAlias(side) == StepResolveAliases(Sql(side).ast, toggles).columns

IsBareColumn(c) == Truthy(c.expr) /\ c.expr.type = "column_ref"

IsDoubleQuoted(c) == Truthy(c.expr) /\ c.expr.type = "double_quote_string"

\* the entry with the alias the claim gives it
AliasedAsStated(c) ==
    IF c.as = <<>> /\ IsBareColumn(c) THEN [c EXCEPT !.as = c.expr.column] ELSE c

\* the same, a double-quoted string without alias taking its text as alias
AliasedWithQuoted(c) ==
    IF c.as = <<>> /\ IsBareColumn(c) THEN [c EXCEPT !.as = c.expr.column]
    ELSE IF c.as = <<>> /\ IsDoubleQuoted(c) THEN [c EXCEPT !.as = c.expr.value]
    ELSE c

\* the query with AS <name> written after every bare column of its select
\* list that has no alias
WithExplicitAliases(t) ==
    IF t.columns = AllColumns THEN t
    ELSE [t EXCEPT !.columns = [i \in 1..Len(@) |-> AliasedAsStated(@[i])]]

\* the entries of got are the entries of expected, each as many times
SameEntries(expected, got) ==
    /\ Len(got) = Len(expected)
    /\ \A i \in 1..Len(expected) :
          Occurrences(got, expected[i]) = Occurrences(expected, expected[i])

\* C22, as stated: after normalizeQuery, under every setting of the
\* toggles, an entry of the select list without alias whose expression is a
\* bare column reference has the name of the column as alias, an entry with
\* an alias keeps it, every other entry has no alias, and the query with
\* the aliases written out has the same canonical tree.
C22_AsStated ==
    \A side \in Sides :
        (Normalized(side) /\ Sql(side).ast.columns # AllColumns) =>
            /\ SameEntries([i \in 1..Len(SelectListToAlias(side)) |->
                               AliasedAsStated(SelectListToAlias(side)[i])],
                           Result(side).ast.columns)
            /\ Canonicalize(WithExplicitAliases(Sql(side).ast), toggles) = Result(side).ast

\* C22, amended: the same, except that an entry without alias whose
\* expression is a double-quoted string has the text of the string as alias.
C22_SelectAliases ==
    \A side \in Sides :
        (Normalized(side) /\ Sql(side).ast.columns # AllColumns) =>
            /\ SameEntries([i \in 1..Len(SelectListToAlias(side)) |->
                               AliasedWithQuoted(SelectListToAlias(side)[i])],
                           Result(side).ast.columns)
            /\ Canonicalize(WithExplicitAliases(Sql(side).ast), toggles) = Result(side).ast

\* a select list with a bare column without alias, an entry with an alias
\* that is not the name of its column and a function call without alias
\* has been normalized: the first has the name of its column as alias, the
\* other two are as they were
C22_Witness ==
    \E side \in Sides :
        /\ Normalized(side)
        /\ Sql(side).ast.columns # AllColumns
        /\ \E i, j, k \in 1..Len(SelectListToAlias(side)) :
              LET l == SelectListToAlias(side)
                  got == Result(side).ast.columns
              IN  /\ IsBareColumn(l[i]) /\ l[i].as = <<>>
                  /\ Occurrences(got, [l[i] EXCEPT !.as = l[i].expr.column]) = 1
                  /\ IsBareColumn(l[j]) /\ l[j].as \notin {<<>>, l[j].expr.column}
                  /\ Occurrences(got, l[j]) = 1
                  /\ l[k].expr.type = "function" /\ l[k].as = <<>>
                  /\ Occurrences(got, l[k]) = 1

(***************************************************************************)
(* Grouping of a predicate                                                 *)
(***************************************************************************)
\* the chains that are operands of a chain of the other operator, at every
\* level of nesting, in the predicate e
RECURSIVE NestedChains(_)
NestedChains(e) ==
    IF ~Truthy(e) \/ ~IsChain(e) THEN {}
    ELSE LET operands == flattenConditions(e, toUpperCase(e.operator))
         IN  UNION { (IF IsChain(operands[i]) THEN {operands[i]} ELSE {})
                     \cup NestedChains(operands[i]) : i \in 1..Len(operands) }

\* C23: once Step 4 has run with sortWhere on, every chain that is an
\* operand of a chain of the other operator is in the canonical predicate
\* as the chain rebuilt from its sorted operands with the parenthesization
\* marker it had, and every OR chain that is an operand of an AND chain of
\* the canonical predicate is marked as being in parentheses, so that the
\* serialized text groups the operands as the predicate given does.
C23_GroupingKept ==
    \A side \in Sides :
        (/\ pc = [side |-> side, at |-> "sortGroupBy"]
         /\ toggles.sortWhere) =>
            /\ \A c \in NestedChains(WhereToSort(side)) :
                  [sortWhereConditionsInPlace(c) EXCEPT !.parentheses = c.parentheses]
                     \in NestedChains(normalizedAst.where)
            /\ \A d \in NestedChains(normalizedAst.where) :
                  toUpperCase(d.operator) = OR => d.parentheses

(***************************************************************************)
(* Failure of the serializer                                               *)
(***************************************************************************)
ErrorGeneratingPrefix ==
    <<"/","*"," ","E","r","r","o","r"," ","g","e","n","e","r","a","t","i","n","g"," ","S",
      "Q","L",":"," ">>

\* the canonical text of the side is the placeholder of astToSQL
SerializationFailed(side) ==
    /\ Normalized(side)
    /\ StartsWith(Result(side).normalized.value, ErrorGeneratingPrefix)

\* C24: when the canonical text of a side is the placeholder that astToSQL
\* gives for a failure of the serializer, the verdict of compareQueries is
\* not-equivalent, also when both sides fail with the same message.
C24_NoVerdictOnFailure ==
    (pc.at = "done" /\ \E side \in Sides : SerializationFailed(side))
        => ~comparison.isEquivalent

(***************************************************************************)
(* Formatting                                                              *)
(***************************************************************************)
\* the character at i is inside a string literal: an odd number of single
\* quotes is before it, and it is not the closing quote
InsideLiteral(s, i) ==
    /\ s[i] # "'"
    /\ Cardinality({j \in 1..(i - 1) : s[j] = "'"}) % 2 = 1

\* the text without the whitespace that is outside string literals
Significant(s) ==
    SelectSeq([i \in 1..Len(s) |->
                  IF IsWhitespace(s[i]) /\ ~InsideLiteral(s, i) THEN "" ELSE s[i]],
              LAMBDA c : c # "")

\* the text that the serializer gives for the canonical tree of the side
Serialized(side) == astToSQL(Result(side).ast)

\* C25: prettifySQL changes only whitespace that is outside string
\* literals, so that two serialized canonical texts that differ in a
\* character that is not whitespace, or in the whitespace inside a string
\* literal, are not formatted to the same text and are not reported
\* equivalent.
C25_FormattingPresentational ==
    /\ \A side \in Sides :
          Normalized(side) =>
             Significant(Result(side).normalized.value) = Significant(Serialized(side))
    /\ (/\ pc.at = "done"
        /\ Normalized(1) /\ Normalized(2)
        /\ Significant(Serialized(1)) # Significant(Serialized(2))) =>
            /\ result1.normalized # result2.normalized
            /\ ~comparison.isEquivalent

(***************************************************************************)
(* The App state machine                                                   *)
(***************************************************************************)
\* a verdict is displayed, and it is the verdict of compareQueries on what
\* the two editors and the dialect selector hold now
VerdictIsCurrent ==
    ~isEquivalent.isNull =>
        isEquivalent.value = compareTexts(query1, query2, database).isEquivalent

BothNonBlank == trim(query1) # <<>> /\ trim(query2) # <<>>

\* C26: after any sequence of user actions, a verdict that is displayed is
\* the verdict of compareQueries on the current contents of both editors and
\* the current dialect, and a comparison is run, by the button or by the
\* keyboard shortcut, only when both editors are non-blank.
C26_VerdictCurrent ==
    /\ []VerdictIsCurrent
    /\ [][(ClickCompare \/ KeyDown) => BothNonBlank]_vars

====
